---- MODULE Spec2Model ----
(***************************************************************************)
(* Model of the account orchestrator of TwitterClientProvider              *)
(* (src/src/database/migrations/0000_needy_raider.sql, the TypeScript      *)
(* part that starts at line 30).                                           *)
(*                                                                         *)
(* The provider runs on one JavaScript event loop: code between two        *)
(* awaits is atomic, and every await of a timer, of file or network I/O,   *)
(* of the driver, or of another async method is a point where another      *)
(* dispatch, the health sweep or a timer callback may run.  Each action    *)
(* below is one such atomic segment.  Times are milliseconds as in the     *)
(* source; the clock advances by the steps a specification allows.         *)
(*                                                                         *)
(* Fields of AccountHealth that only feed log lines and the timeout        *)
(* scaling (requestCount, successRate, responseTimeHistory, errorCounts,   *)
(* lastErrorType, lastErrorMessage, lastSuccessTime) are not part of the   *)
(* state.                                                                  *)
(***************************************************************************)
EXTENDS Integers, Sequences, FiniteSets, TLC

(***************************************************************************)
(* Bounds of the model                                                     *)
(***************************************************************************)
NumAccounts == 2
NumProxies == 2
NumExec == 2
\* length of a batch that takes the single-account path (more than 5)
BatchLen == 6
LongBatch == 11
\* REQUESTS_PER_HOUR is 200 in the source (line 248); the model scales the
\* window capacity down so that a full window is reachable
REQUESTS_PER_HOUR == 3

Accounts == 1..NumAccounts
\* the username `undefined`: the result of reading .username on the
\* { account, waitTime } object that selectAvailableAccount may return
Undef == NumAccounts + 1
UserNames == 1..(NumAccounts + 1)
Proxies == 1..NumProxies
Execs == 1..NumExec
None == 0

(***************************************************************************)
(* Program constants                                                       *)
(***************************************************************************)
MAX_CONSECUTIVE_FAILURES == 50
COOLDOWN_DURATION_MS == 120000
ERROR_RESET_TIME_MS == 900000
AUTO_RECOVERY_CHECK_INTERVAL_MS == 120000
ERROR_HISTORY_LIMIT == 25
AUTH_ERROR_THRESHOLD == 50
AUTH_ERROR_WINDOW_MS == 86400000
CIRCUIT_FAILURE_THRESHOLD == 15
CIRCUIT_RESET_TIMEOUT_MS == 60000
RATE_LIMIT_WINDOW_MS == 900000
PROXY_SPACING_MS == 1000
SEMAPHORE_TIMEOUT_MS == 10000
MAX_ATTEMPTS == 10
SEARCH_ATTEMPTS == 3
SMALL_BATCH_MAX == 5
CHUNK_SIZE == 10
LOGIN_DELAY_MS == 1000
SCREEN_NAME_RETRY_MS == 2000
RATE_WAIT_SLACK_MS == 100
AUTH_COOLDOWN_FAILURES == 5
NETWORK_PROBATION_FAILURES == 10
PROMOTION_SUCCESSES == 3

(***************************************************************************)
(* Error messages.  A message is a string; Lower(m) is the set of the      *)
(* needles of classifyError found in m.toLowerCase() (and whether it       *)
(* holds "status 401"), Exact(m) the set of the case-sensitive needles of  *)
(* executeWithAccount found in m, and Json326(m) tells whether m parses as *)
(* JSON with errors[].code == 326.                                         *)
(***************************************************************************)
MsgUpper401 == "RESPONSE STATUS: 401"
Msg401 == "Response status: 401"
MsgPerform == "Failed to perform request"
MsgTweetsTimeout == "User tweets fetch timed out after 35000ms"
MsgOpTimeout == "Profile fetch timed out after 30000ms"
MsgSearchTimeout == "Search timed out"
MsgFetchFailed == "fetch failed"
MsgRateLimit == "Rate limit exceeded"
MsgUnauthorized == "Unauthorized"
MsgLoginFailed == "Login failed"
MsgNoData == "No data returned"
MsgNotFound == "Not found"
MsgJson326 == "{errors:[{code:326}]}"
MsgAccountLocked == "Account locked"
MsgScreenName == "Cannot read properties of undefined (reading 'screen_name')"
MsgOther == "Something went wrong"
MsgStatus401 == "Request failed with status 401"
MsgConnTimeout == "Connection timed out"
MsgRateLimitLogin == "Rate limit exceeded for login"

Messages ==
  {Msg401, MsgUpper401, MsgPerform, MsgTweetsTimeout, MsgOpTimeout,
   MsgSearchTimeout, MsgFetchFailed, MsgRateLimit, MsgUnauthorized,
   MsgLoginFailed, MsgNoData, MsgNotFound, MsgJson326, MsgAccountLocked,
   MsgScreenName, MsgOther, MsgStatus401, MsgConnTimeout, MsgRateLimitLogin}

Lower(m) ==
  CASE m = Msg401 -> {"response status: 401", "401"}
    [] m = MsgUpper401 -> {"response status: 401", "401"}
    [] m = MsgPerform -> {}
    [] m = MsgTweetsTimeout -> {"timed out"}
    [] m = MsgOpTimeout -> {"timed out"}
    [] m = MsgSearchTimeout -> {"timed out"}
    [] m = MsgFetchFailed -> {"fetch failed"}
    [] m = MsgRateLimit -> {"rate limit"}
    [] m = MsgUnauthorized -> {"auth", "unauthorized"}
    [] m = MsgLoginFailed -> {"login"}
    [] m = MsgNoData -> {}
    [] m = MsgNotFound -> {"not found"}
    [] m = MsgJson326 -> {}
    [] m = MsgAccountLocked -> {"account locked"}
    [] m = MsgScreenName -> {}
    [] m = MsgStatus401 -> {"status 401", "401"}
    [] m = MsgConnTimeout -> {"connection", "timed out"}
    [] m = MsgRateLimitLogin -> {"rate limit", "login"}
    [] OTHER -> {}

Exact(m) ==
  CASE m = Msg401 -> {"Response status: 401"}
    [] m = MsgPerform -> {"Failed to perform request"}
    [] m = MsgTweetsTimeout -> {"User tweets fetch timed out", "timed out after"}
    [] m = MsgOpTimeout -> {"timed out after"}
    [] m = MsgScreenName ->
         {"Cannot read properties of undefined (reading 'screen_name')"}
    [] OTHER -> {}

Json326(m) == m = MsgJson326

TIMEOUT == "timeout"
NETWORK == "network"
RATE_LIMIT == "rate_limit"
AUTH == "authentication"
NOT_FOUND == "not_found"
ACCOUNT_LOCKED == "account_locked"
ACCOUNT_SUSPENDED == "account_suspended"
UNKNOWN == "unknown"

\* the tests of classifyError with the test for AUTH moved to the front
classifyErrorAuthFirst(m) ==
  IF Lower(m) \cap {"auth", "login", "credentials", "unauthorized", "401"} # {}
    THEN AUTH
  ELSE IF Json326(m) THEN ACCOUNT_LOCKED
  ELSE IF Lower(m) \cap {"response status: 401", "status code: 401"} # {}
    THEN ACCOUNT_SUSPENDED
  ELSE IF Lower(m) \cap {"timeout", "timed out"} # {} THEN TIMEOUT
  ELSE IF Lower(m) \cap {"network", "fetch failed", "connection", "socket"} # {}
    THEN NETWORK
  ELSE IF Lower(m) \cap {"rate limit", "too many requests", "429"} # {}
    THEN RATE_LIMIT
  ELSE IF Lower(m) \cap {"not found", "404"} # {} THEN NOT_FOUND
  ELSE IF Lower(m) \cap {"account is temporarily locked", "account locked",
                         "to unlock your account"} # {}
    THEN ACCOUNT_LOCKED
  ELSE UNKNOWN

classifyError(m) ==
  IF Json326(m) THEN ACCOUNT_LOCKED
  ELSE IF Lower(m) \cap {"response status: 401", "status code: 401"} # {}
    THEN ACCOUNT_SUSPENDED
  ELSE IF Lower(m) \cap {"timeout", "timed out"} # {} THEN TIMEOUT
  ELSE IF Lower(m) \cap {"network", "fetch failed", "connection", "socket"} # {}
    THEN NETWORK
  ELSE IF Lower(m) \cap {"rate limit", "too many requests", "429"} # {}
    THEN RATE_LIMIT
  ELSE IF Lower(m) \cap {"auth", "login", "credentials", "unauthorized", "401"} # {}
    THEN AUTH
  ELSE IF Lower(m) \cap {"not found", "404"} # {} THEN NOT_FOUND
  ELSE IF Lower(m) \cap {"account is temporarily locked", "account locked",
                         "to unlock your account"} # {}
    THEN ACCOUNT_LOCKED
  ELSE UNKNOWN

HEALTHY == "healthy"
PROBATION == "probation"
COOLDOWN == "cooldown"
DISABLED == "disabled"
LOCKED == "locked"
SUSPENDED == "suspended"

CLOSED == "CLOSED"
OPEN == "OPEN"
HALF_OPEN == "HALF_OPEN"


(***************************************************************************)
(* Processes: NumExec concurrent calls of executeWithAccount, one call of  *)
(* batchExecuteWithAccount on its single-account path, one searchProfiles  *)
(* generator and the health sweep (checkAccountHealth).                    *)
(***************************************************************************)
BatchP == NumExec + 1
SearchP == NumExec + 2
SweepP == NumExec + 3
AdminP == NumExec + 4
Procs == 1..(NumExec + 4)

VARIABLES
  now,                        \* Date.now()
  ticks,                      \* number of clock steps taken
  MAX_CONCURRENT_OPERATIONS,  \* gate capacity, fixed by the constructor
  credentials,                \* this.credentials: account -> flags, for the
                              \* accounts of the array
  dataFile,                   \* content of data.json: the stored accounts,
                              \* or Unreadable
  credentialsLoaded,          \* this.credentialsLoaded
  loadingCredentials,         \* this.loadingCredentials
  accountHealth,              \* this.accountHealth
  proxyAssignment,            \* this.proxyAssignment (None: not assigned)
  nextRequestAt,              \* Proxy.nextRequestAt
  proxyAgent,                 \* this.proxyAgent, the global dispatcher
  session,                    \* account whose cookies this.scraper holds
  concurrentOperations,
  circuitState, circuitFailureCount, circuitOpenTime,
  nextSweepAt,                \* next firing of the health-check interval
  pc,                         \* position of each process
  acct,                       \* account a process works on
  loc,                        \* locals of each process
  ret,                        \* what the last call of each entry point returned
  batch,                      \* results and running closures of the batch
  calls,                      \* number of entry-point calls made so far
  lastCallAt,                 \* history: start of the latest call per proxy
  failStreak,                 \* history: failed dispatches since the last success
  ev                          \* history: what the step that led here did

vars ==
  <<now, ticks, MAX_CONCURRENT_OPERATIONS, credentials, dataFile,
    credentialsLoaded, loadingCredentials,
    accountHealth, proxyAssignment, nextRequestAt, proxyAgent, session,
    concurrentOperations, circuitState, circuitFailureCount, circuitOpenTime,
    nextSweepAt, pc, acct, loc, ret, batch, calls, lastCallAt, failStreak,
    ev>>

(***************************************************************************)
(* Health tracker                                                          *)
(***************************************************************************)
\* getAccountHealth: the record a username gets on first use.  streak is
\* history, not a field of the source: the number of operation results in a
\* row that were successes, counted up to PROMOTION_SUCCESSES.  code326 is
\* history too: a login of the account has failed with code 326.
\* authFailures is history: the number of failures classified AUTH that
\* updateAccountHealth has recorded for the account.
NewHealth ==
  [status |-> HEALTHY, lastUsed |-> 0, consecutiveFailures |-> 0,
   consecutiveSuccesses |-> 0, cooldownUntil |-> 0, lastErrorTime |-> 0,
   errorHistory |-> <<>>, requestHistory |-> <<>>, streak |-> 0,
   code326 |-> FALSE, authFailures |-> 0]

\* requestHistory.filter((timestamp) => now - timestamp < RATE_LIMIT_WINDOW_MS)
TrimWindow(hist, t) ==
  SelectSeq(hist, LAMBDA ts : t - ts < RATE_LIMIT_WINDOW_MS)

\* canAccountMakeRequest, on the trimmed history
canRequest(h, t) == Len(TrimWindow(h.requestHistory, t)) < REQUESTS_PER_HOUR

waitTimeOf(h, t) ==
  RATE_LIMIT_WINDOW_MS - (t - Head(TrimWindow(h.requestHistory, t)))

\* canAccountMakeRequest also stores the trimmed history
TrimAll(ah, t) ==
  [u \in UserNames |->
     IF u \in Accounts
       THEN [ah[u] EXCEPT !.requestHistory = TrimWindow(ah[u].requestHistory, t)]
       ELSE ah[u]]

countRecentAuthErrors(h, t) ==
  Len(SelectSeq(h.errorHistory,
        LAMBDA e : e.type = AUTH /\ t - e.timestamp < AUTH_ERROR_WINDOW_MS))

PushError(hist, e) ==
  LET pushed == Append(hist, e)
  IN IF Len(pushed) > ERROR_HISTORY_LIMIT THEN Tail(pushed) ELSE pushed

\* the part of updateAccountHealth that runs for every call
Touch(h, t) ==
  [h EXCEPT !.lastUsed = t,
            !.requestHistory = TrimWindow(Append(h.requestHistory, t), t)]

\* updateAccountHealth(username, true, ...)
HealthOnSuccess(h, t) ==
  LET h1 == [Touch(h, t) EXCEPT
               !.consecutiveSuccesses = @ + 1,
               !.consecutiveFailures = 0,
               !.streak = IF @ < PROMOTION_SUCCESSES THEN @ + 1 ELSE @]
  IN IF h1.status = PROBATION /\ h1.consecutiveSuccesses >= PROMOTION_SUCCESSES
       THEN [h1 EXCEPT !.status = HEALTHY]
       ELSE h1

\* a switch that puts the account on cooldown at its first AUTH failure
HealthSwitchEarlyCooldown(h, errorType, t) ==
  IF errorType \in {AUTH, RATE_LIMIT}
    THEN [h EXCEPT !.status = COOLDOWN,
                   !.cooldownUntil = t + COOLDOWN_DURATION_MS]
    ELSE h

\* the switch of updateAccountHealth on the error type
HealthSwitch(h, errorType, t) ==
  CASE errorType \in {TIMEOUT, ACCOUNT_LOCKED, ACCOUNT_SUSPENDED} ->
         [h EXCEPT !.status =
            IF errorType = ACCOUNT_SUSPENDED THEN SUSPENDED ELSE LOCKED]
    [] errorType = AUTH ->
         IF h.consecutiveFailures >= AUTH_COOLDOWN_FAILURES
           THEN [h EXCEPT !.status = COOLDOWN,
                          !.cooldownUntil = t + COOLDOWN_DURATION_MS]
           ELSE h
    [] errorType = RATE_LIMIT ->
         [h EXCEPT !.status = COOLDOWN,
                   !.cooldownUntil = t + COOLDOWN_DURATION_MS]
    [] errorType = NETWORK ->
         IF h.consecutiveFailures >= NETWORK_PROBATION_FAILURES
           THEN [h EXCEPT !.status = PROBATION]
           ELSE h
    [] errorType = NOT_FOUND ->
         [h EXCEPT !.consecutiveFailures =
            IF h.consecutiveFailures - 1 > 0 THEN h.consecutiveFailures - 1 ELSE 0]
    [] OTHER ->
         IF h.consecutiveFailures >= MAX_CONSECUTIVE_FAILURES
           THEN [h EXCEPT !.status = PROBATION]
           ELSE h

\* the error types for which updateAccountHealth locks the account and
\* returns false before the switch ends
LocksAccount(errorType) ==
  errorType \in {TIMEOUT, ACCOUNT_LOCKED, ACCOUNT_SUSPENDED}

\* updateAccountHealth(username, false, error): the health record afterwards
HealthOnError(h, m, t) ==
  LET errorType == classifyError(m)
      h1 == [Touch(h, t) EXCEPT
               !.consecutiveFailures = @ + 1,
               !.consecutiveSuccesses = 0,
               !.streak = 0,
               !.authFailures = IF errorType = AUTH THEN @ + 1 ELSE @,
               !.lastErrorTime = t,
               !.errorHistory =
                  PushError(@, [type |-> errorType, timestamp |-> t])]
      h2 == HealthSwitch(h1, errorType, t)
  IN IF LocksAccount(errorType) THEN h2
     ELSE IF countRecentAuthErrors(h2, t) >= AUTH_ERROR_THRESHOLD
       THEN [h2 EXCEPT !.status = DISABLED]
       ELSE h2

\* the value updateAccountHealth(username, false, error) returns
KeepUsable(h, m, t) ==
  /\ ~LocksAccount(classifyError(m))
  /\ countRecentAuthErrors(HealthOnError(h, m, t), t) < AUTH_ERROR_THRESHOLD

\* account.isLocked = true alone
LockCredStaysUsable(c) == [c EXCEPT !.isLocked = TRUE]

\* account.isLocked = true; account.usable = false
LockCred(c) == [c EXCEPT !.isLocked = TRUE, !.usable = FALSE]


(***************************************************************************)
(* Proxy pool                                                              *)
(***************************************************************************)
AssignedCount == Cardinality({u \in UserNames : proxyAssignment[u] # None})

\* a round-robin that forgets the binding a username already has
AssignProxyAfresh(u) == (AssignedCount % NumProxies) + 1

\* assignProxyToAccount: sticky round-robin (proxies are numbered from 1)
assignProxyToAccount(u) ==
  IF proxyAssignment[u] # None
    THEN proxyAssignment[u]
    ELSE (AssignedCount % NumProxies) + 1

\* getProxyForAccount: the proxy, or None while it is not ready
getProxyForAccount(u) ==
  IF now < nextRequestAt[assignProxyToAccount(u)]
    THEN None
    ELSE assignProxyToAccount(u)

\* configureProxy: re-points the process-global dispatcher
configureProxy(u) ==
  /\ proxyAssignment' = [proxyAssignment EXCEPT ![u] = assignProxyToAccount(u)]
  /\ proxyAgent' = getProxyForAccount(u)
  /\ nextRequestAt' =
       IF getProxyForAccount(u) = None
         THEN nextRequestAt
         ELSE [nextRequestAt EXCEPT ![getProxyForAccount(u)] = now + PROXY_SPACING_MS]
  /\ UNCHANGED session

\* what a step did, for the properties: the message classifyError was
\* given and the kind it returned; the account selectAvailableAccount
\* returned to run on (with its health at that moment), and the upstream
\* calls that started (for which user, through which proxy, how long after
\* the previous call through that proxy; -1: no earlier call; with the
\* cookies of which account)
NoEvent ==
  [sel |-> None, status |-> HEALTHY, cooling |-> FALSE,
   call |-> None, via |-> None, gap |-> -1, session |-> None,
   entry |-> "none", proc |-> None, admitted |-> FALSE, open |-> FALSE,
   age |-> 0, msg |-> "none", kind |-> "none"]

Quiet == ev' = NoEvent

\* k upstream calls of the driver start now for user u: the request
\* transform of initClient sends them through the current this.proxyAgent
UpstreamCalls(u, k) ==
  /\ ev' = [NoEvent EXCEPT
              !.call = u, !.via = proxyAgent, !.session = session,
              !.gap = IF proxyAgent = None THEN -1
                      ELSE IF k >= 2 THEN 0
                      ELSE IF lastCallAt[proxyAgent] < 0 THEN -1
                      ELSE now - lastCallAt[proxyAgent]]
  /\ lastCallAt' = IF proxyAgent = None THEN lastCallAt
                   ELSE [lastCallAt EXCEPT ![proxyAgent] = now]

(***************************************************************************)
(* Circuit breaker                                                         *)
(***************************************************************************)
\* checkCircuitBreaker: does it admit the call
checkCircuitBreaker ==
  \/ circuitState = CLOSED
  \/ circuitState = HALF_OPEN
  \/ circuitState = OPEN /\ now - circuitOpenTime > CIRCUIT_RESET_TIMEOUT_MS

\* checkCircuitBreaker: the state it leaves
StateAfterCheck ==
  IF circuitState = OPEN /\ now - circuitOpenTime > CIRCUIT_RESET_TIMEOUT_MS
    THEN HALF_OPEN
    ELSE circuitState

\* updateCircuitBreaker that trips only above the threshold
updateCircuitBreakerAbove(st, success) ==
  CASE st.state = CLOSED /\ ~success ->
         IF st.count + 1 > CIRCUIT_FAILURE_THRESHOLD
           THEN [state |-> OPEN, count |-> st.count + 1, openTime |-> now]
           ELSE [st EXCEPT !.count = st.count + 1]
    [] st.state = CLOSED /\ success ->
         [st EXCEPT !.count = IF st.count - 1 > 0 THEN st.count - 1 ELSE 0]
    [] st.state = HALF_OPEN /\ success ->
         [st EXCEPT !.state = CLOSED, !.count = 0]
    [] st.state = HALF_OPEN /\ ~success ->
         [st EXCEPT !.state = OPEN, !.openTime = now]
    [] OTHER -> st

\* updateCircuitBreaker(success), from breaker state st
updateCircuitBreaker(st, success) ==
  CASE st.state = CLOSED /\ ~success ->
         IF st.count + 1 >= CIRCUIT_FAILURE_THRESHOLD
           THEN [state |-> OPEN, count |-> st.count + 1, openTime |-> now]
           ELSE [st EXCEPT !.count = st.count + 1]
    [] st.state = CLOSED /\ success ->
         [st EXCEPT !.count = IF st.count - 1 > 0 THEN st.count - 1 ELSE 0]
    [] st.state = HALF_OPEN /\ success ->
         [st EXCEPT !.state = CLOSED, !.count = 0]
    [] st.state = HALF_OPEN /\ ~success ->
         [st EXCEPT !.state = OPEN, !.openTime = now]
    [] OTHER -> st

Breaker ==
  [state |-> circuitState, count |-> circuitFailureCount,
   openTime |-> circuitOpenTime]

SetBreaker(st) ==
  /\ circuitState' = st.state
  /\ circuitFailureCount' = st.count
  /\ circuitOpenTime' = st.openTime

breakerVars == <<circuitState, circuitFailureCount, circuitOpenTime>>
proxyVars == <<proxyAssignment, nextRequestAt, proxyAgent, session>>
clockVars == <<now, ticks, MAX_CONCURRENT_OPERATIONS>>
loadVars == <<credentialsLoaded, loadingCredentials>>


(***************************************************************************)
(* Account selection                                                       *)
(***************************************************************************)
\* the filter without its test of the cooldown
AvailableIgnoringCooldown(t) ==
  {a \in DOMAIN credentials :
     /\ credentials[a].usable
     /\ ~credentials[a].isLocked
     /\ canRequest(accountHealth[a], t)
     /\ accountHealth[a].status # DISABLED
     /\ accountHealth[a].status # LOCKED}

\* the filter of selectAvailableAccount
Available(t) ==
  {a \in DOMAIN credentials :
     /\ credentials[a].usable
     /\ ~credentials[a].isLocked
     /\ canRequest(accountHealth[a], t)
     /\ accountHealth[a].status # DISABLED
     /\ accountHealth[a].status # LOCKED
     /\ ~(/\ accountHealth[a].status = COOLDOWN
          /\ accountHealth[a].cooldownUntil # 0
          /\ t < accountHealth[a].cooldownUntil)}

RateLimited(t) ==
  {a \in DOMAIN credentials : ~canRequest(accountHealth[a], t)}

\* the rate-limited account with the soonest wait time, first one on a tie
Soonest(t) ==
  CHOOSE a \in RateLimited(t) :
    \A b \in RateLimited(t) :
      \/ waitTimeOf(accountHealth[a], t) < waitTimeOf(accountHealth[b], t)
      \/ /\ waitTimeOf(accountHealth[a], t) = waitTimeOf(accountHealth[b], t)
         /\ a <= b

\* an array without accounts
NoAccounts == [a \in {} |-> FALSE]

\* the content of a data.json that is missing or does not parse: no array
\* of accounts (its only key is None)
Unreadable == [a \in {None} |-> FALSE]

\* the locals of a call; blocked, trial and tries are history (tries: the
\* number of times this call went on to configureProxy and tryLogin).  hang
\* tells that the upstream will never answer the executor's request, timed
\* that the executor wraps its request in withTimeout.  snapshot is the
\* array a call holds for fs.writeFile.  failed is history: an upstream
\* call of the running closure has failed or timed out and the closure has
\* caught the error itself.
NewLoc ==
  [attempt |-> 0, bannedAccounts |-> {}, suspendedAccountsInThisRequest |-> {},
   wake |-> 0, loginOk |-> FALSE, sel |-> "none", waitTime |-> 0,
   blocked |-> FALSE, trial |-> FALSE, yielded |-> FALSE, startTime |-> 0,
   tries |-> 0, hang |-> FALSE, timed |-> TRUE, snapshot |-> NoAccounts,
   failed |-> FALSE]

\* was the breaker OPEN and younger than the reset timeout at this moment
EntryBlocked ==
  circuitState = OPEN /\ now - circuitOpenTime < CIRCUIT_RESET_TIMEOUT_MS

\* the event of a call of entry point kind by process p: whether it went on
\* past its first statement, and the breaker it met
EntryEvent(kind, p, admitted) ==
  [NoEvent EXCEPT
     !.entry = kind, !.proc = p, !.admitted = admitted,
     !.open = (circuitState = OPEN),
     !.age = IF circuitState = OPEN THEN now - circuitOpenTime ELSE 0]

\* this.credentials after the forEach of loadCredentials over the parsed
\* file f: every entry that is not locked is made usable
Loaded(f) ==
  [a \in DOMAIN f |->
     IF f[a].isLocked THEN f[a] ELSE [f[a] EXCEPT !.usable = TRUE]]

\* the two early returns of loadCredentials: a load is in progress, or the
\* accounts were loaded and there is at least one
LoadReturnsAtOnce ==
  \/ loadingCredentials
  \/ credentialsLoaded /\ DOMAIN credentials # {}

\* loadCredentials, called by selectAvailableAccount of process p, goes on
\* to fs.readFile
LoadStart(p) ==
  /\ pc[p] = "select"
  /\ ~LoadReturnsAtOnce
  /\ loadingCredentials' = TRUE
  /\ pc' = [pc EXCEPT ![p] = "readFile"]
  /\ Quiet
  /\ UNCHANGED <<clockVars, credentials, dataFile, credentialsLoaded,
                 accountHealth, proxyVars, concurrentOperations, breakerVars,
                 nextSweepAt, acct, loc, ret, batch, calls, failStreak,
                 lastCallAt>>

\* fs.readFile settles: the parsed accounts replace this.credentials and a
\* locked entry sets its health to LOCKED; a file that cannot be read
\* leaves an empty array.  loadCredentials returns.
LoadDone(p) ==
  /\ pc[p] = "readFile"
  /\ IF dataFile = Unreadable
       THEN /\ credentials' = NoAccounts
            /\ UNCHANGED <<credentialsLoaded, accountHealth>>
       ELSE /\ credentials' = Loaded(dataFile)
            /\ credentialsLoaded' = TRUE
            /\ accountHealth' =
                 [u \in UserNames |->
                    IF u \in DOMAIN dataFile /\ dataFile[u].isLocked
                      THEN [accountHealth[u] EXCEPT !.status = LOCKED]
                      ELSE accountHealth[u]]
  /\ loadingCredentials' = FALSE
  /\ pc' = [pc EXCEPT ![p] = "loaded"]
  /\ Quiet
  /\ UNCHANGED <<clockVars, dataFile, proxyVars, concurrentOperations,
                 breakerVars, nextSweepAt, acct, loc, ret, batch, calls,
                 failStreak, lastCallAt>>

\* selectAvailableAccount, called by process p, once its loadCredentials
\* has returned: a random available account ("run"), else the soonest
\* rate-limited one with its wait ("wait"), else null ("null")
Select(p) ==
  /\ \/ pc[p] = "select" /\ LoadReturnsAtOnce
     \/ pc[p] = "loaded"
  /\ accountHealth' = TrimAll(accountHealth, now)
  /\ \/ /\ Available(now) # {}
        /\ \E a \in Available(now) :
             /\ acct' = [acct EXCEPT ![p] = a]
             /\ loc' = [loc EXCEPT ![p].sel = "run", ![p].waitTime = 0]
             /\ ev' = [NoEvent EXCEPT
                         !.sel = a,
                         !.status = accountHealth[a].status,
                         !.cooling = /\ accountHealth[a].status = COOLDOWN
                                     /\ now < accountHealth[a].cooldownUntil]
     \/ /\ Available(now) = {}
        /\ RateLimited(now) # {}
        /\ acct' = [acct EXCEPT ![p] = Soonest(now)]
        /\ loc' = [loc EXCEPT ![p].sel = "wait",
                              ![p].waitTime =
                                 waitTimeOf(accountHealth[Soonest(now)], now)]
        /\ Quiet
     \/ /\ Available(now) = {}
        /\ RateLimited(now) = {}
        /\ acct' = [acct EXCEPT ![p] = None]
        /\ loc' = [loc EXCEPT ![p].sel = "null", ![p].waitTime = 0]
        /\ Quiet
  /\ pc' = [pc EXCEPT ![p] = "selected"]
  /\ UNCHANGED <<clockVars, credentials, dataFile, loadVars, proxyVars,
                 concurrentOperations, breakerVars, nextSweepAt, ret, batch,
                 calls, failStreak, lastCallAt>>

(***************************************************************************)
(* saveCredentials.  Where the caller awaits it and goes on in a step of   *)
(* its own, the array is serialized when the save is called and reaches    *)
(* data.json when fs.writeFile settles, which is when the caller goes on.  *)
(* The saves that are not awaited, and those whose caller returns right    *)
(* after them, are taken to reach the file before any other step.          *)
(***************************************************************************)
\* saveCredentials is called by process p, whose locals become l:
\* JSON.stringify(this.credentials) is handed to fs.writeFile
SaveStart(p, l) ==
  /\ loc' = [loc EXCEPT ![p] = [l EXCEPT !.snapshot = credentials']]
  /\ UNCHANGED <<dataFile, loadVars>>

\* fs.writeFile of process p settles
SaveDone(p) == dataFile' = loc[p].snapshot

(***************************************************************************)
(* tryLogin, shared by every caller.  It ends in pc "loginDone" with       *)
(* loc.loginOk holding its result; the caller goes on from there.          *)
(***************************************************************************)
\* the synchronous start of tryLogin(cred) for the account object the
\* caller holds: locked accounts are refused, stored cookies are installed
\* (await scraper.setCookies), otherwise the credential login waits 1 s.
\* The { account, waitTime } object (user Undef) has no flags and no cookie.
LoginBegin(p, u, l) ==
  IF u # Undef /\ credentials[u].isLocked
    THEN /\ pc' = [pc EXCEPT ![p] = "loginDone"]
         /\ loc' = [loc EXCEPT ![p] = [l EXCEPT !.loginOk = FALSE]]
  ELSE IF u # Undef /\ credentials[u].cookie
    THEN /\ pc' = [pc EXCEPT ![p] = "loginCookies"]
         /\ loc' = [loc EXCEPT ![p] = l]
  ELSE /\ pc' = [pc EXCEPT ![p] = "loginSleep"]
       /\ loc' = [loc EXCEPT ![p] = [l EXCEPT !.wake = now + LOGIN_DELAY_MS]]

\* scraper.setCookies settles: installed in the one scraper every caller
\* shares (login succeeds without any validation) or it threw (fall
\* through to the credential login)
LoginCookiesDone(p, ok) ==
  /\ pc[p] = "loginCookies"
  /\ IF ok
       THEN /\ pc' = [pc EXCEPT ![p] = "loginDone"]
            /\ loc' = [loc EXCEPT ![p].loginOk = TRUE]
       ELSE /\ pc' = [pc EXCEPT ![p] = "loginSleep"]
            /\ loc' = [loc EXCEPT ![p].wake = now + LOGIN_DELAY_MS]
  /\ session' = IF ok THEN acct[p] ELSE session
  /\ Quiet
  /\ UNCHANGED <<clockVars, credentials, dataFile, loadVars, accountHealth,
                 proxyAssignment, nextRequestAt, proxyAgent,
                 concurrentOperations, breakerVars, nextSweepAt, acct, ret,
                 batch, calls, failStreak, lastCallAt>>

\* the 1 s delay is over: scraper.login starts (an upstream call)
LoginSleepDone(p) ==
  /\ pc[p] = "loginSleep"
  /\ now >= loc[p].wake
  /\ UpstreamCalls(acct[p], 1)
  /\ pc' = [pc EXCEPT ![p] = "loginCall"]
  /\ UNCHANGED <<clockVars, credentials, dataFile, loadVars, accountHealth, proxyVars,
                 concurrentOperations, breakerVars, nextSweepAt, acct, loc,
                 ret, batch, calls, failStreak>>

\* credentials after cred.usable = true; cred.isLocked = false (and the
\* captured cookies, when there are any)
LoginStore(c, gotCookies) ==
  [usable |-> TRUE, isLocked |-> FALSE, cookie |-> c.cookie \/ gotCookies]

\* scraper.login settles.  r = "ok": logged in and cookies captured;
\* "okNoCookies": logged in, no cookie to store; "locked": JSON error with
\* code 326; "fail": any other error, the 45 s timeout included.
LoginResult(p, r) ==
  /\ pc[p] = "loginCall"
  /\ CASE r \in {"ok", "okNoCookies"} ->
            /\ credentials' =
                 IF acct[p] = Undef THEN credentials
                 ELSE [credentials EXCEPT
                         ![acct[p]] = LoginStore(@, r = "ok")]
            /\ dataFile' = credentials' /\ UNCHANGED loadVars
            /\ pc' = [pc EXCEPT ![p] = "loginDone"]
            /\ loc' = [loc EXCEPT ![p].loginOk = TRUE]
       [] r = "locked" ->
            /\ credentials' =
                 IF acct[p] = Undef THEN credentials
                 ELSE [credentials EXCEPT ![acct[p]] = LockCred(@)]
            /\ SaveStart(p, [loc[p] EXCEPT !.loginOk = FALSE])
            /\ pc' = [pc EXCEPT ![p] = "loginLockSave"]
       [] OTHER ->
            /\ pc' = [pc EXCEPT ![p] = "loginDone"]
            /\ loc' = [loc EXCEPT ![p].loginOk = FALSE]
            /\ UNCHANGED <<credentials, dataFile, loadVars>>
  /\ session' = IF r \in {"ok", "okNoCookies"} THEN acct[p] ELSE session
  /\ Quiet
  /\ UNCHANGED <<clockVars, accountHealth, proxyAssignment, nextRequestAt,
                 proxyAgent, concurrentOperations,
                 breakerVars, nextSweepAt, acct, ret, batch, calls, failStreak, lastCallAt>>

\* after the save of a code-326 lock: health.status = LOCKED; return false
LoginLockSaved(p) ==
  /\ pc[p] = "loginLockSave"
  /\ accountHealth' = [accountHealth EXCEPT ![acct[p]].status = LOCKED,
                                              ![acct[p]].code326 = TRUE]
  /\ pc' = [pc EXCEPT ![p] = "loginDone"]
  /\ loc' = [loc EXCEPT ![p].snapshot = NoAccounts]
  /\ SaveDone(p)
  /\ Quiet
  /\ UNCHANGED <<clockVars, credentials, loadVars, proxyVars,
                 concurrentOperations, breakerVars, nextSweepAt, acct,
                 ret, batch, calls, failStreak, lastCallAt>>


(***************************************************************************)
(* executeWithAccount                                                      *)
(***************************************************************************)
\* updateAccountHealth(u, false, new Error(m)) with its side effect on the
\* account: the locking error types set isLocked/usable on the entry of
\* this.credentials and start a save
ApplyHealthError(u, m) ==
  /\ accountHealth' =
       [accountHealth EXCEPT ![u] = HealthOnError(@, m, now)]
  /\ IF LocksAccount(classifyError(m)) /\ u \in Accounts
       THEN /\ credentials' = [credentials EXCEPT ![u] = LockCred(@)]
            /\ dataFile' = credentials' /\ UNCHANGED loadVars
       ELSE UNCHANGED <<credentials, dataFile, loadVars>>

\* updateAccountHealth(u, false, new Error(m)) on its own
HealthReport(u, m, maxCalls) ==
  /\ calls < maxCalls
  /\ calls' = calls + 1
  /\ ApplyHealthError(u, m)
  /\ ev' = [NoEvent EXCEPT !.msg = m, !.kind = classifyError(m)]
  /\ UNCHANGED <<clockVars, proxyVars, concurrentOperations, breakerVars,
                 nextSweepAt, pc, acct, loc, ret, batch, failStreak,
                 lastCallAt>>

\* a return that leaves the gate as it is
ExecReturnKeepsGate(d, value, success) ==
  /\ ret' = [ret EXCEPT ![d] = value]
  /\ pc' = [pc EXCEPT ![d] = "idle"]
  /\ acct' = [acct EXCEPT ![d] = None]
  /\ loc' = [loc EXCEPT ![d] = NewLoc]
  /\ UNCHANGED concurrentOperations
  /\ SetBreaker(updateCircuitBreaker(Breaker, success))
  /\ failStreak' = IF success THEN 0 ELSE failStreak + 1

\* a return of executeWithAccount after the gate was acquired: the finally
\* block releases the gate; the breaker has been told the outcome once
ExecReturn(d, value, success) ==
  /\ ret' = [ret EXCEPT ![d] = value]
  /\ pc' = [pc EXCEPT ![d] = "idle"]
  /\ acct' = [acct EXCEPT ![d] = None]
  /\ loc' = [loc EXCEPT ![d] = NewLoc]
  /\ concurrentOperations' =
       IF concurrentOperations > 0 THEN concurrentOperations - 1 ELSE 0
  /\ SetBreaker(updateCircuitBreaker(Breaker, success))
  /\ failStreak' = IF success THEN 0 ELSE failStreak + 1

\* an outer catch that hands the error on to the caller
OuterCatchRethrows(d) == ExecReturn(d, "threw", FALSE)

\* an outer catch that tells the breaker a success
OuterCatchToldSuccess(d) == ExecReturn(d, "null", TRUE)

\* the outer catch of executeWithAccount: whatever was thrown inside the try
\* block ends as a failure told to the breaker and a null result
OuterCatch(d) == ExecReturn(d, "null", FALSE)

\* a loop that goes on with the same iteration number
ExecLoopSameAttempt(d, n, l) ==
  /\ pc' = [pc EXCEPT ![d] = "select"]
  /\ loc' = [loc EXCEPT ![d] = l]
  /\ UNCHANGED <<acct, ret, concurrentOperations, breakerVars, failStreak>>

\* the for loop goes to iteration n with locals l, or ends after 10 attempts
ExecLoop(d, n, l) ==
  IF n < MAX_ATTEMPTS
    THEN /\ pc' = [pc EXCEPT ![d] = "select"]
         /\ loc' = [loc EXCEPT ![d] = [l EXCEPT !.attempt = n]]
         /\ UNCHANGED <<acct, ret, concurrentOperations, breakerVars, failStreak>>
    ELSE ExecReturn(d, "null", FALSE)

\* entry of executeWithAccount: breaker check, then the first try of
\* acquireSemaphore
ExecuteStart(d, maxCalls) ==
  /\ pc[d] = "idle"
  /\ calls < maxCalls
  /\ calls' = calls + 1
  /\ IF ~checkCircuitBreaker
       THEN /\ ret' = [ret EXCEPT ![d] = "null"]
            /\ UNCHANGED <<pc, loc, concurrentOperations, circuitState>>
       ELSE /\ circuitState' = StateAfterCheck
            /\ ret' = [ret EXCEPT ![d] = "none"]
            /\ IF concurrentOperations < MAX_CONCURRENT_OPERATIONS
                 THEN /\ concurrentOperations' = concurrentOperations + 1
                      /\ pc' = [pc EXCEPT ![d] = "select"]
                 ELSE /\ pc' = [pc EXCEPT ![d] = "gateWait"]
                      /\ UNCHANGED concurrentOperations
            /\ loc' = [loc EXCEPT ![d] =
                         [NewLoc EXCEPT !.startTime = now,
                                        !.blocked = EntryBlocked,
                                        !.trial = (StateAfterCheck = HALF_OPEN)]]
  /\ ev' = EntryEvent("execute", d, checkCircuitBreaker)
  /\ UNCHANGED <<clockVars, credentials, dataFile, loadVars, accountHealth, proxyVars,
                 circuitFailureCount, circuitOpenTime, nextSweepAt, acct,
                 batch, failStreak, lastCallAt>>

\* acquireSemaphore wakes from its backoff before the 10 s are over and
\* finds a free slot
GateAcquire(d) ==
  /\ pc[d] = "gateWait"
  /\ now - loc[d].startTime < SEMAPHORE_TIMEOUT_MS
  /\ concurrentOperations < MAX_CONCURRENT_OPERATIONS
  /\ concurrentOperations' = concurrentOperations + 1
  /\ pc' = [pc EXCEPT ![d] = "select"]
  /\ Quiet
  /\ UNCHANGED <<clockVars, credentials, dataFile, loadVars, accountHealth, proxyVars,
                 breakerVars, nextSweepAt, acct, loc, ret, batch, calls, failStreak, lastCallAt>>

\* acquireSemaphore gives up: executeWithAccount returns null
GateTimeout(d) ==
  /\ pc[d] = "gateWait"
  /\ now - loc[d].startTime >= SEMAPHORE_TIMEOUT_MS
  /\ ret' = [ret EXCEPT ![d] = "null"]
  /\ pc' = [pc EXCEPT ![d] = "idle"]
  /\ loc' = [loc EXCEPT ![d] = NewLoc]
  /\ Quiet
  /\ UNCHANGED <<clockVars, credentials, dataFile, loadVars, accountHealth, proxyVars,
                 concurrentOperations, breakerVars, nextSweepAt, acct, batch,
                 calls, failStreak, lastCallAt>>

\* the loop body from the result of selectAvailableAccount up to the first
\* await of tryLogin
ExecAttempt(d) ==
  /\ pc[d] = "selected"
  /\ d \in Execs
  /\ CASE loc[d].sel = "null" ->
            /\ ExecReturn(d, "null", FALSE)
            /\ UNCHANGED <<accountHealth, proxyVars>>
       [] acct[d] \in loc[d].bannedAccounts
                        \cup loc[d].suspendedAccountsInThisRequest ->
            /\ ExecLoop(d, loc[d].attempt + 1, loc[d])
            /\ UNCHANGED <<accountHealth, proxyVars>>
       [] loc[d].sel = "wait" ->
            /\ pc' = [pc EXCEPT ![d] = "rateSleep"]
            /\ loc' = [loc EXCEPT ![d].wake =
                         now + loc[d].waitTime + RATE_WAIT_SLACK_MS]
            /\ UNCHANGED <<accountHealth, proxyVars, acct, ret,
                           concurrentOperations, breakerVars, failStreak>>
       [] OTHER ->
            /\ configureProxy(acct[d])
            /\ accountHealth' =
                 [accountHealth EXCEPT ![acct[d]] = Touch(@, now)]
            /\ LoginBegin(d, acct[d], [loc[d] EXCEPT !.tries = @ + 1])
            /\ UNCHANGED <<acct, ret, concurrentOperations, breakerVars,
                           failStreak>>
  /\ Quiet
  /\ UNCHANGED <<clockVars, credentials, dataFile, loadVars, nextSweepAt, batch, calls, lastCallAt>>

\* the wait for the soonest rate-limited account is over (attempt-- and
\* continue: the attempt is not consumed)
ExecRateSleepDone(d) ==
  /\ pc[d] = "rateSleep"
  /\ d \in Execs
  /\ now >= loc[d].wake
  /\ pc' = [pc EXCEPT ![d] = "select"]
  /\ Quiet
  /\ UNCHANGED <<clockVars, credentials, dataFile, loadVars, accountHealth, proxyVars,
                 concurrentOperations, breakerVars, nextSweepAt, acct, loc,
                 ret, batch, calls, failStreak, lastCallAt>>

\* tryLogin returned: on failure record 'Login failed' and go to the next
\* attempt, on success call the executor (its upstream call starts)
ExecAfterLogin(d) ==
  /\ pc[d] = "loginDone"
  /\ d \in Execs
  /\ IF loc[d].loginOk
       THEN /\ UpstreamCalls(acct[d], 1)
            /\ pc' = [pc EXCEPT ![d] = "executor"]
            /\ UNCHANGED <<credentials, dataFile, loadVars, accountHealth, acct, loc,
                           ret, concurrentOperations, breakerVars, failStreak>>
       ELSE /\ ApplyHealthError(acct[d], MsgLoginFailed)
            /\ ExecLoop(d, loc[d].attempt + 1, loc[d])
            /\ Quiet
            /\ UNCHANGED lastCallAt
  /\ UNCHANGED <<clockVars, proxyVars, nextSweepAt, batch, calls>>


\* the case-sensitive tests of the catch block of executeWithAccount
IsSuspensionMessage(m) ==
  Exact(m) \cap {"Response status: 401", "status code: 401",
                 "Failed to perform request"} # {}

IsBanMessage(m) == "User tweets fetch timed out" \in Exact(m)

IsScreenNameMessage(m) ==
  "Cannot read properties of undefined (reading 'screen_name')" \in Exact(m)

IsTimeoutMessage(m) ==
  \/ classifyError(m) \in {TIMEOUT, NETWORK}
  \/ "timed out after" \in Exact(m)

\* the upstream stops answering the request of the executor of call d.
\* timed: the executor is one that races its request against withTimeout
\* (every operation of the catalog but getUserTimelineInDateRange).
UpstreamHangs(d, timed) ==
  /\ pc[d] = "executor"
  /\ d \in Execs
  /\ ~loc[d].hang
  /\ loc' = [loc EXCEPT ![d].hang = TRUE, ![d].timed = timed]
  /\ Quiet
  /\ UNCHANGED <<clockVars, credentials, dataFile, loadVars, accountHealth, proxyVars,
                 concurrentOperations, breakerVars, nextSweepAt, pc, acct,
                 ret, batch, calls, failStreak, lastCallAt>>

\* the closure of getUserTweetsLarge: a page request of its loop fails or
\* times out; the catch inside the loop logs the error and breaks, and the
\* closure returns its object { tweets, totalFetched, ... } with the tweets
\* collected so far
LargeFetchPageFails(d) ==
  /\ pc[d] = "executor"
  /\ d \in Execs
  /\ ~loc[d].hang
  /\ ~loc[d].failed
  /\ loc' = [loc EXCEPT ![d].failed = TRUE]
  /\ Quiet
  /\ UNCHANGED <<clockVars, credentials, dataFile, loadVars, accountHealth,
                 proxyVars, concurrentOperations, breakerVars, nextSweepAt,
                 pc, acct, ret, batch, calls, failStreak, lastCallAt>>

\* the executor settles.  o = "payload": a usable result; "empty": null,
\* undefined or []; "throwNull": it threw a value without a message
\* (reading error.message in the catch block throws, the outer catch
\* returns null); otherwise o is the message of the Error it threw.  When
\* the upstream never answers, the executor settles only if withTimeout
\* rejects it ("... timed out after ...").
ExecResult(d, o) ==
  /\ pc[d] = "executor"
  /\ d \in Execs
  /\ loc[d].hang => (loc[d].timed /\ o = MsgOpTimeout)
  /\ loc[d].failed => o = "payload"
  /\ CASE o = "payload" ->
            /\ accountHealth' =
                 [accountHealth EXCEPT ![acct[d]] = HealthOnSuccess(@, now)]
            /\ ExecReturn(d, "payload", TRUE)
            /\ UNCHANGED <<credentials, dataFile, loadVars>>
       [] o = "empty" ->
            /\ ApplyHealthError(acct[d], MsgNoData)
            /\ ExecLoop(d, loc[d].attempt + 1, loc[d])
       [] o = "throwNull" ->
            /\ OuterCatch(d)
            /\ UNCHANGED <<credentials, dataFile, loadVars, accountHealth>>
       [] o \in Messages /\ IsSuspensionMessage(o) ->
            /\ credentials' = [credentials EXCEPT ![acct[d]] = LockCred(@)]
            /\ SaveStart(d, loc[d])
            /\ pc' = [pc EXCEPT ![d] = "suspendSave"]
            /\ UNCHANGED <<accountHealth, acct, ret,
                           concurrentOperations, breakerVars, failStreak>>
       [] o \in Messages /\ ~IsSuspensionMessage(o) /\ IsBanMessage(o) ->
            /\ credentials' = [credentials EXCEPT ![acct[d]] = LockCred(@)]
            /\ SaveStart(d, loc[d])
            /\ pc' = [pc EXCEPT ![d] = "banSave"]
            /\ UNCHANGED <<accountHealth, acct, ret,
                           concurrentOperations, breakerVars, failStreak>>
       [] /\ o \in Messages /\ ~IsSuspensionMessage(o) /\ ~IsBanMessage(o)
          /\ IsScreenNameMessage(o) ->
            /\ ApplyHealthError(acct[d], o)
            /\ pc' = [pc EXCEPT ![d] = "screenSleep"]
            /\ loc' = [loc EXCEPT ![d].wake = now + SCREEN_NAME_RETRY_MS]
            /\ UNCHANGED <<acct, ret, concurrentOperations, breakerVars,
                           failStreak>>
       [] /\ o \in Messages /\ ~IsSuspensionMessage(o) /\ ~IsBanMessage(o)
          /\ ~IsScreenNameMessage(o) /\ IsTimeoutMessage(o) ->
            /\ credentials' = [credentials EXCEPT ![acct[d]] = LockCred(@)]
            /\ SaveStart(d, loc[d])
            /\ pc' = [pc EXCEPT ![d] = "suspendSave"]
            /\ UNCHANGED <<accountHealth, acct, ret,
                           concurrentOperations, breakerVars, failStreak>>
       [] /\ o \in Messages /\ ~IsSuspensionMessage(o) /\ ~IsBanMessage(o)
          /\ ~IsScreenNameMessage(o) /\ ~IsTimeoutMessage(o) ->
            /\ ApplyHealthError(acct[d], o)
            /\ ExecLoop(d, loc[d].attempt + 1, loc[d])
  /\ Quiet
  /\ UNCHANGED <<clockVars, proxyVars, nextSweepAt, batch, calls, lastCallAt>>

\* after the save of a suspension: health.status = SUSPENDED, the account is
\* skipped for the rest of this call and the attempt is not consumed
ExecSuspendSaved(d) ==
  /\ pc[d] = "suspendSave"
  /\ d \in Execs
  /\ accountHealth' = [accountHealth EXCEPT ![acct[d]].status = SUSPENDED]
  /\ loc' = [loc EXCEPT ![d].suspendedAccountsInThisRequest =
                           @ \cup {acct[d]},
                         ![d].snapshot = NoAccounts]
  /\ pc' = [pc EXCEPT ![d] = "select"]
  /\ SaveDone(d)
  /\ Quiet
  /\ UNCHANGED <<clockVars, credentials, loadVars, proxyVars,
                 concurrentOperations, breakerVars, nextSweepAt, acct, ret,
                 batch, calls, failStreak, lastCallAt>>

\* after the save of a ban: health.status = LOCKED, the account is skipped
\* for the rest of this call and the attempt is not consumed
ExecBanSaved(d) ==
  /\ pc[d] = "banSave"
  /\ d \in Execs
  /\ accountHealth' = [accountHealth EXCEPT ![acct[d]].status = LOCKED]
  /\ loc' = [loc EXCEPT ![d].bannedAccounts = @ \cup {acct[d]},
                         ![d].snapshot = NoAccounts]
  /\ pc' = [pc EXCEPT ![d] = "select"]
  /\ SaveDone(d)
  /\ Quiet
  /\ UNCHANGED <<clockVars, credentials, loadVars, proxyVars,
                 concurrentOperations, breakerVars, nextSweepAt, acct, ret,
                 batch, calls, failStreak, lastCallAt>>

\* the 2 s pause after a screen_name error is over: next attempt
ExecScreenSleepDone(d) ==
  /\ pc[d] = "screenSleep"
  /\ d \in Execs
  /\ now >= loc[d].wake
  /\ ExecLoop(d, loc[d].attempt + 1, loc[d])
  /\ Quiet
  /\ UNCHANGED <<clockVars, credentials, dataFile, loadVars, accountHealth, proxyVars,
                 nextSweepAt, batch, calls, lastCallAt>>

(***************************************************************************)
(* batchExecuteWithAccount.  A batch of at most 5 operations is            *)
(* Promise.all over executeWithAccount calls that start in the same        *)
(* instant: those are ExecuteStart steps of several calls at one value of  *)
(* now.  The actions below are the single-account path of larger batches.  *)
(***************************************************************************)
BatchSlots == IF BatchLen > LongBatch THEN BatchLen ELSE LongBatch

NewBatch ==
  [n |-> 0, fns |-> 0, running |-> {}, user |-> None,
   results |-> [j \in 1..BatchSlots |-> "none"]]

\* the username the batch and searchProfiles read from the selection
SelectedUser(p) == IF loc[p].sel = "run" THEN acct[p] ELSE Undef

\* entry of batchExecuteWithAccount with nOps operations and nFns executors
BatchStart(nOps, nFns, maxCalls) ==
  /\ pc[BatchP] = "idle"
  /\ batch.running = {}
  /\ calls < maxCalls
  /\ calls' = calls + 1
  /\ IF nOps # nFns
       THEN /\ ret' = [ret EXCEPT ![BatchP] = "threw"]
            /\ batch' = [NewBatch EXCEPT !.n = nOps, !.fns = nFns]
            /\ UNCHANGED <<pc, loc>>
       ELSE /\ nOps > SMALL_BATCH_MAX
            /\ ret' = [ret EXCEPT ![BatchP] = "none"]
            /\ pc' = [pc EXCEPT ![BatchP] = "select"]
            /\ loc' = [loc EXCEPT ![BatchP] =
                         [NewLoc EXCEPT !.blocked = EntryBlocked]]
            /\ batch' = [NewBatch EXCEPT !.n = nOps, !.fns = nFns]
  /\ ev' = EntryEvent("batch", BatchP, nOps = nFns)
  /\ UNCHANGED <<clockVars, credentials, dataFile, loadVars, accountHealth, proxyVars,
                 concurrentOperations, breakerVars, nextSweepAt, acct,
                 failStreak, lastCallAt>>

\* return executors.map(() => null) without telling the breaker
BatchReturnNulls ==
  /\ ret' = [ret EXCEPT ![BatchP] = "nulls"]
  /\ pc' = [pc EXCEPT ![BatchP] = "idle"]
  /\ acct' = [acct EXCEPT ![BatchP] = None]
  /\ loc' = [loc EXCEPT ![BatchP] = NewLoc]

\* configureProxy, updateAccountHealth(u, false) and the start of tryLogin
BatchBegin(u) ==
  /\ configureProxy(u)
  /\ accountHealth' = [accountHealth EXCEPT ![u] = Touch(@, now)]
  /\ acct' = [acct EXCEPT ![BatchP] = u]
  /\ LoginBegin(BatchP, u, loc[BatchP])

\* from the result of selectAvailableAccount to the first await of tryLogin
BatchAfterSelect ==
  /\ pc[BatchP] = "selected"
  /\ CASE loc[BatchP].sel = "null" ->
            /\ BatchReturnNulls
            /\ UNCHANGED <<accountHealth, proxyVars>>
       [] /\ loc[BatchP].sel # "null"
          /\ ~canRequest(accountHealth[SelectedUser(BatchP)], now) ->
            /\ pc' = [pc EXCEPT ![BatchP] = "rateSleep"]
            /\ acct' = [acct EXCEPT ![BatchP] = SelectedUser(BatchP)]
            /\ loc' = [loc EXCEPT ![BatchP].wake =
                         now + RATE_WAIT_SLACK_MS
                         + waitTimeOf(accountHealth[SelectedUser(BatchP)], now)]
            /\ accountHealth' =
                 [accountHealth EXCEPT
                    ![SelectedUser(BatchP)].requestHistory =
                       TrimWindow(@, now)]
            /\ UNCHANGED <<proxyVars, ret>>
       [] OTHER ->
            /\ BatchBegin(SelectedUser(BatchP))
            /\ UNCHANGED ret
  /\ Quiet
  /\ UNCHANGED <<clockVars, credentials, dataFile, loadVars, concurrentOperations,
                 breakerVars, nextSweepAt, batch, calls, failStreak,
                 lastCallAt>>

\* the wait for the rate-limited account is over; the batch goes on with it
BatchRateSleepDone ==
  /\ pc[BatchP] = "rateSleep"
  /\ now >= loc[BatchP].wake
  /\ BatchBegin(acct[BatchP])
  /\ Quiet
  /\ UNCHANGED <<clockVars, credentials, dataFile, loadVars, concurrentOperations,
                 breakerVars, nextSweepAt, ret, batch, calls, failStreak,
                 lastCallAt>>

\* the closures of the chunk that starts at slot first
ChunkOf(first, n) ==
  {j \in 1..n : j >= first /\ j < first + CHUNK_SIZE}

\* tryLogin returned: on failure every slot is null, on success the
\* closures of the first chunk all start
BatchAfterLogin ==
  /\ pc[BatchP] = "loginDone"
  /\ IF loc[BatchP].loginOk
       THEN /\ UpstreamCalls(acct[BatchP], Cardinality(ChunkOf(1, batch.n)))
            /\ batch' = [batch EXCEPT !.running = ChunkOf(1, batch.n)]
            /\ pc' = [pc EXCEPT ![BatchP] = "chunk"]
            /\ UNCHANGED <<credentials, dataFile, loadVars, accountHealth, acct, loc, ret>>
       ELSE /\ ApplyHealthError(acct[BatchP], MsgLoginFailed)
            /\ BatchReturnNulls
            /\ Quiet
            /\ UNCHANGED <<batch, lastCallAt>>
  /\ UNCHANGED <<clockVars, proxyVars, concurrentOperations, breakerVars,
                 nextSweepAt, calls, failStreak>>

SuccessCount(results, n) ==
  Cardinality({j \in 1..n : results[j] = "payload"})

\* Math.ceil(n / 2)
HalfUp(n) == (n + 1) \div 2

\* closure j settles.  o = "payload": a non-null result; "null": it
\* returned null; "throwNull": it threw a value without a message (the
\* batch's outer catch returns nulls while the other closures of the chunk
\* run on); otherwise o is the message of the Error it threw.  When the
\* last closure of a chunk settles the next chunk starts, or the batch
\* tells the breaker and returns.
BatchClosureDone(j, o) ==
  /\ j \in batch.running
  /\ LET user == IF pc[BatchP] = "chunk" THEN acct[BatchP] ELSE batch.user
         res == [batch.results EXCEPT ![j] = IF o = "payload" THEN "payload"
                                             ELSE "null"]
         left == batch.running \ {j}
         nextFirst == CHOOSE f \in 1..(batch.n + 1) :
                        \A k \in 1..batch.n : res[k] # "none" <=> k < f
     IN /\ CASE o \in {"payload", "null"} ->
                  /\ accountHealth' =
                       [accountHealth EXCEPT ![user] = HealthOnSuccess(@, now)]
                  /\ UNCHANGED <<credentials, dataFile, loadVars>>
             [] o = "throwNull" ->
                  UNCHANGED <<credentials, dataFile, loadVars, accountHealth>>
             [] OTHER -> ApplyHealthError(user, o)
        /\ CASE pc[BatchP] # "chunk" ->
                  \* a closure the batch no longer waits for
                  /\ batch' = [batch EXCEPT !.running = left]
                  /\ Quiet
                  /\ UNCHANGED <<pc, acct, loc, ret, breakerVars, failStreak,
                                 lastCallAt>>
             [] pc[BatchP] = "chunk" /\ o = "throwNull" ->
                  /\ batch' = [batch EXCEPT !.running = left,
                                            !.user = acct[BatchP]]
                  /\ BatchReturnNulls
                  /\ SetBreaker(updateCircuitBreaker(Breaker, FALSE))
                  /\ Quiet
                  /\ UNCHANGED <<failStreak, lastCallAt>>
             [] pc[BatchP] = "chunk" /\ o # "throwNull" /\ left # {} ->
                  /\ batch' = [batch EXCEPT !.running = left, !.results = res]
                  /\ Quiet
                  /\ UNCHANGED <<pc, acct, loc, ret, breakerVars, failStreak,
                                 lastCallAt>>
             [] /\ pc[BatchP] = "chunk" /\ o # "throwNull" /\ left = {}
                /\ nextFirst <= batch.n ->
                  /\ batch' = [batch EXCEPT
                                 !.running = ChunkOf(nextFirst, batch.n),
                                 !.results = res]
                  /\ UpstreamCalls(user,
                                   Cardinality(ChunkOf(nextFirst, batch.n)))
                  /\ UNCHANGED <<pc, acct, loc, ret, breakerVars, failStreak>>
             [] /\ pc[BatchP] = "chunk" /\ o # "throwNull" /\ left = {}
                /\ nextFirst > batch.n ->
                  /\ batch' = [batch EXCEPT !.running = {}, !.results = res]
                  /\ ret' = [ret EXCEPT ![BatchP] = "results"]
                  /\ pc' = [pc EXCEPT ![BatchP] = "idle"]
                  /\ acct' = [acct EXCEPT ![BatchP] = None]
                  /\ loc' = [loc EXCEPT ![BatchP] = NewLoc]
                  /\ SetBreaker(updateCircuitBreaker(Breaker,
                       SuccessCount(res, batch.n) >= HalfUp(batch.n)))
                  /\ failStreak' =
                       IF SuccessCount(res, batch.n) >= HalfUp(batch.n)
                         THEN 0 ELSE failStreak
                  /\ Quiet
                  /\ UNCHANGED lastCallAt
  /\ UNCHANGED <<clockVars, proxyVars, concurrentOperations, nextSweepAt,
                 calls>>

(***************************************************************************)
(* searchProfiles (the streaming generator of getClient)                   *)
(***************************************************************************)
\* the generator ends; its finally block releases the gate
SearchReturn ==
  /\ ret' = [ret EXCEPT ![SearchP] = "ended"]
  /\ pc' = [pc EXCEPT ![SearchP] = "idle"]
  /\ acct' = [acct EXCEPT ![SearchP] = None]
  /\ loc' = [loc EXCEPT ![SearchP] = NewLoc]
  /\ concurrentOperations' =
       IF concurrentOperations > 0 THEN concurrentOperations - 1 ELSE 0

\* the for loop goes to iteration n, or ends after 3 attempts
SearchLoop(n, l) ==
  IF n < SEARCH_ATTEMPTS
    THEN /\ pc' = [pc EXCEPT ![SearchP] = "select"]
         /\ loc' = [loc EXCEPT ![SearchP] = [l EXCEPT !.attempt = n]]
         /\ UNCHANGED <<acct, ret, concurrentOperations>>
    ELSE SearchReturn

\* entry of searchProfiles: the first try of acquireSemaphore
SearchStart(maxCalls) ==
  /\ pc[SearchP] = "idle"
  /\ calls < maxCalls
  /\ calls' = calls + 1
  /\ ret' = [ret EXCEPT ![SearchP] = "none"]
  /\ IF concurrentOperations < MAX_CONCURRENT_OPERATIONS
       THEN /\ concurrentOperations' = concurrentOperations + 1
            /\ pc' = [pc EXCEPT ![SearchP] = "select"]
       ELSE /\ pc' = [pc EXCEPT ![SearchP] = "gateWait"]
            /\ UNCHANGED concurrentOperations
  /\ loc' = [loc EXCEPT ![SearchP] =
               [NewLoc EXCEPT !.startTime = now, !.blocked = EntryBlocked]]
  /\ ev' = EntryEvent("search", SearchP, TRUE)
  /\ UNCHANGED <<clockVars, credentials, dataFile, loadVars, accountHealth, proxyVars,
                 breakerVars, nextSweepAt, acct, batch, failStreak,
                 lastCallAt>>

\* acquireSemaphore gave up: the generator ends without the gate
SearchGateTimeout ==
  /\ pc[SearchP] = "gateWait"
  /\ now - loc[SearchP].startTime >= SEMAPHORE_TIMEOUT_MS
  /\ ret' = [ret EXCEPT ![SearchP] = "ended"]
  /\ pc' = [pc EXCEPT ![SearchP] = "idle"]
  /\ loc' = [loc EXCEPT ![SearchP] = NewLoc]
  /\ Quiet
  /\ UNCHANGED <<clockVars, credentials, dataFile, loadVars, accountHealth, proxyVars,
                 concurrentOperations, breakerVars, nextSweepAt, acct, batch,
                 calls, failStreak, lastCallAt>>

\* the loop body from the result of selectAvailableAccount up to the first
\* await of tryLogin
SearchAttempt ==
  /\ pc[SearchP] = "selected"
  /\ CASE loc[SearchP].sel = "null" ->
            /\ SearchReturn
            /\ UNCHANGED <<accountHealth, proxyVars>>
       [] /\ loc[SearchP].sel # "null"
          /\ ~canRequest(accountHealth[SelectedUser(SearchP)], now) ->
            /\ pc' = [pc EXCEPT ![SearchP] = "rateSleep"]
            /\ loc' = [loc EXCEPT ![SearchP].wake =
                         now + RATE_WAIT_SLACK_MS
                         + waitTimeOf(accountHealth[SelectedUser(SearchP)], now)]
            /\ accountHealth' =
                 [accountHealth EXCEPT
                    ![SelectedUser(SearchP)].requestHistory =
                       TrimWindow(@, now)]
            /\ UNCHANGED <<proxyVars, acct, ret, concurrentOperations>>
       [] OTHER ->
            /\ configureProxy(SelectedUser(SearchP))
            /\ accountHealth' =
                 [accountHealth EXCEPT
                    ![SelectedUser(SearchP)] = Touch(@, now)]
            /\ acct' = [acct EXCEPT ![SearchP] = SelectedUser(SearchP)]
            /\ LoginBegin(SearchP, SelectedUser(SearchP), loc[SearchP])
            /\ UNCHANGED <<ret, concurrentOperations>>
  /\ Quiet
  /\ UNCHANGED <<clockVars, credentials, dataFile, loadVars, breakerVars, nextSweepAt,
                 batch, calls, failStreak, lastCallAt>>

\* the rate-limit wait is over (attempt-- and continue)
SearchRateSleepDone ==
  /\ pc[SearchP] = "rateSleep"
  /\ now >= loc[SearchP].wake
  /\ pc' = [pc EXCEPT ![SearchP] = "select"]
  /\ Quiet
  /\ UNCHANGED <<clockVars, credentials, dataFile, loadVars, accountHealth, proxyVars,
                 concurrentOperations, breakerVars, nextSweepAt, acct, loc,
                 ret, batch, calls, failStreak, lastCallAt>>

\* tryLogin returned: on failure next attempt, on success the iteration of
\* scraper.searchProfiles starts (an upstream call)
SearchAfterLogin ==
  /\ pc[SearchP] = "loginDone"
  /\ IF loc[SearchP].loginOk
       THEN /\ UpstreamCalls(acct[SearchP], 1)
            /\ pc' = [pc EXCEPT ![SearchP] = "searching"]
            /\ UNCHANGED <<credentials, dataFile, loadVars, accountHealth, acct, loc,
                           ret, concurrentOperations>>
       ELSE /\ ApplyHealthError(acct[SearchP], MsgLoginFailed)
            /\ SearchLoop(loc[SearchP].attempt + 1, loc[SearchP])
            /\ Quiet
            /\ UNCHANGED lastCallAt
  /\ UNCHANGED <<clockVars, proxyVars, breakerVars, nextSweepAt, batch,
                 calls, failStreak>>

\* the iteration moves on.  o = "yield": a profile is handed to the
\* consumer (loc.yielded records that one was); "complete": the
\* sequence ended or maxProfiles was reached; "timeout": the 60 s check
\* after a yield fired; otherwise o is the message of the Error thrown.
SearchResult(o) ==
  /\ pc[SearchP] = "searching"
  /\ CASE o = "yield" ->
            /\ ~loc[SearchP].yielded
            /\ loc' = [loc EXCEPT ![SearchP].yielded = TRUE]
            /\ UNCHANGED <<credentials, dataFile, loadVars, accountHealth, pc, acct,
                           ret, concurrentOperations>>
       [] o = "complete" ->
            /\ accountHealth' =
                 [accountHealth EXCEPT
                    ![acct[SearchP]] = HealthOnSuccess(@, now)]
            /\ SearchReturn
            /\ UNCHANGED <<credentials, dataFile, loadVars>>
       [] o = "timeout" ->
            /\ loc[SearchP].yielded
            /\ ApplyHealthError(acct[SearchP], MsgSearchTimeout)
            /\ SearchReturn
       [] OTHER ->
            /\ ApplyHealthError(acct[SearchP], o)
            /\ IF classifyError(o) = NOT_FOUND \/ loc[SearchP].yielded
                 THEN SearchReturn
                 ELSE SearchLoop(loc[SearchP].attempt + 1, loc[SearchP])
  /\ Quiet
  /\ UNCHANGED <<clockVars, proxyVars, breakerVars, nextSweepAt, batch,
                 calls, failStreak, lastCallAt>>

(***************************************************************************)
(* checkAccountHealth, the sweep started by the 2-minute interval.  It     *)
(* reads the clock once (loc.startTime) and visits the accounts in order;  *)
(* loc.attempt is the account it is at.                                    *)
(***************************************************************************)
\* the sweep moves to account n, or ends after the last one
SweepLoop(n, l) ==
  /\ loc' = [loc EXCEPT ![SweepP] = [l EXCEPT !.attempt = n]]
  /\ acct' = [acct EXCEPT ![SweepP] = None]
  /\ pc' = [pc EXCEPT ![SweepP] = IF n <= NumAccounts THEN "sweep" ELSE "idle"]

SweepStart ==
  /\ pc[SweepP] = "idle"
  /\ now >= nextSweepAt
  /\ nextSweepAt' = nextSweepAt + AUTO_RECOVERY_CHECK_INTERVAL_MS
  /\ pc' = [pc EXCEPT ![SweepP] = "sweep"]
  /\ loc' = [loc EXCEPT ![SweepP] =
               [NewLoc EXCEPT !.startTime = now, !.attempt = 1]]
  /\ Quiet
  /\ UNCHANGED <<clockVars, credentials, dataFile, loadVars, accountHealth, proxyVars,
                 concurrentOperations, breakerVars, acct, ret, batch, calls,
                 failStreak, lastCallAt>>

\* the health record of an account after the synchronous part of its visit:
\* trim, COOLDOWN expiry, reset of idle error counters
SweepHealth(h, c, t) ==
  LET h0 == [h EXCEPT !.requestHistory = TrimWindow(@, t)]
      skip == \/ h0.status \in {HEALTHY, LOCKED, SUSPENDED}
              \/ c.isLocked
      h1 == IF h0.status = COOLDOWN /\ h0.cooldownUntil # 0
               /\ t > h0.cooldownUntil
              THEN [h0 EXCEPT !.status = PROBATION, !.consecutiveFailures = 0]
              ELSE h0
      h2 == IF h1.lastErrorTime # 0
               /\ t - h1.lastErrorTime > ERROR_RESET_TIME_MS
              THEN [h1 EXCEPT !.consecutiveFailures = 0]
              ELSE h1
  IN IF skip THEN h0 ELSE h2

SweepSkips(h, c) ==
  \/ h.status \in {HEALTHY, LOCKED, SUSPENDED}
  \/ c.isLocked

\* does the visit try a recovery login
SweepRecovers(h, c, t) ==
  /\ ~SweepSkips(h, c)
  /\ SweepHealth(h, c, t).status \in {PROBATION, COOLDOWN}
  /\ t - h.lastUsed > COOLDOWN_DURATION_MS

\* the visit of account loc.attempt up to its first await.  An unusable
\* account that is not locked is made usable again and saved.
SweepAccount ==
  /\ pc[SweepP] = "sweep"
  /\ LET a == loc[SweepP].attempt
         t == loc[SweepP].startTime
         h == accountHealth[a]
         c == credentials[a]
     IN /\ accountHealth' = [accountHealth EXCEPT ![a] = SweepHealth(h, c, t)]
        /\ IF ~SweepSkips(h, c) /\ ~c.usable /\ ~c.isLocked
             THEN /\ credentials' = [credentials EXCEPT ![a].usable = TRUE]
                  /\ dataFile' = credentials' /\ UNCHANGED loadVars
             ELSE UNCHANGED <<credentials, dataFile, loadVars>>
        /\ IF SweepRecovers(h, c, t)
             THEN /\ acct' = [acct EXCEPT ![SweepP] = a]
                  /\ LoginBegin(SweepP, a, loc[SweepP])
             ELSE SweepLoop(a + 1, loc[SweepP])
  /\ Quiet
  /\ UNCHANGED <<clockVars, proxyVars, concurrentOperations, breakerVars,
                 nextSweepAt, ret, batch, calls, failStreak, lastCallAt>>

\* the recovery login returned: a success puts the account on PROBATION
SweepAfterLogin ==
  /\ pc[SweepP] = "loginDone"
  /\ accountHealth' =
       IF loc[SweepP].loginOk
         THEN [accountHealth EXCEPT
                 ![acct[SweepP]].status = PROBATION,
                 ![acct[SweepP]].consecutiveSuccesses = 1,
                 ![acct[SweepP]].consecutiveFailures = 0]
         ELSE accountHealth
  /\ SweepLoop(loc[SweepP].attempt + 1, loc[SweepP])
  /\ Quiet
  /\ UNCHANGED <<clockVars, credentials, dataFile, loadVars, proxyVars,
                 concurrentOperations, breakerVars, nextSweepAt, ret, batch,
                 calls, failStreak, lastCallAt>>

(***************************************************************************)
(* The account administration of TwitterService: every operation reads     *)
(* data.json, edits the parsed array and writes it back.                   *)
(***************************************************************************)
\* the entry addAccount pushes
AddedAccount == [usable |-> TRUE, isLocked |-> FALSE, cookie |-> FALSE]

\* does operation op on account a go on to its write, given the array f
AdminApplies(op, a, f) ==
  CASE op = "add" -> a \notin DOMAIN f
    [] op = "delete" -> a \in DOMAIN f
    [] OTHER -> TRUE

\* the array the operation writes back
AdminEdit(op, a, f) ==
  CASE op = "add" ->
         [x \in DOMAIN f \cup {a} |-> IF x = a THEN AddedAccount ELSE f[x]]
    [] op = "delete" -> [x \in DOMAIN f \ {a} |-> f[x]]
    [] op = "clearAllCookies" ->
         [x \in DOMAIN f |-> [f[x] EXCEPT !.cookie = FALSE]]
    [] op = "deleteLocked" ->
         [x \in {y \in DOMAIN f : ~f[y].isLocked} |-> f[x]]

\* fs.readFile of an administrative call settles: the array is parsed and
\* edited, fs.writeFile starts (an operation that throws writes nothing)
AdminRead(op, a, maxCalls) ==
  /\ pc[AdminP] = "idle"
  /\ calls < maxCalls
  /\ dataFile # Unreadable
  /\ AdminApplies(op, a, dataFile)
  /\ calls' = calls + 1
  /\ loc' = [loc EXCEPT ![AdminP].snapshot = AdminEdit(op, a, dataFile)]
  /\ pc' = [pc EXCEPT ![AdminP] = "adminWrite"]
  /\ Quiet
  /\ UNCHANGED <<clockVars, credentials, dataFile, loadVars, accountHealth,
                 proxyVars, concurrentOperations, breakerVars, nextSweepAt,
                 acct, ret, batch, failStreak, lastCallAt>>

\* fs.writeFile of the administrative call settles
AdminWrite ==
  /\ pc[AdminP] = "adminWrite"
  /\ dataFile' = loc[AdminP].snapshot
  /\ loc' = [loc EXCEPT ![AdminP] = NewLoc]
  /\ pc' = [pc EXCEPT ![AdminP] = "idle"]
  /\ Quiet
  /\ UNCHANGED <<clockVars, credentials, loadVars, accountHealth, proxyVars,
                 concurrentOperations, breakerVars, nextSweepAt, acct, ret,
                 batch, calls, failStreak, lastCallAt>>

(***************************************************************************)
(* The clock                                                               *)
(***************************************************************************)
Tick(steps, maxTicks) ==
  /\ ticks < maxTicks
  /\ \E dt \in steps : now' = now + dt
  /\ ticks' = ticks + 1
  /\ Quiet
  /\ UNCHANGED <<MAX_CONCURRENT_OPERATIONS, credentials, dataFile, loadVars,
                 accountHealth, proxyVars, concurrentOperations, breakerVars,
                 nextSweepAt, pc, acct, loc, ret, batch, calls, failStreak, lastCallAt>>

(***************************************************************************)
(* The state after construction and onModuleInit: the accounts of          *)
(* data.json are loaded (an account stored as locked is LOCKED, every      *)
(* other one is usable and HEALTHY), no proxy is assigned yet, the breaker *)
(* is CLOSED.                                                              *)
(***************************************************************************)
\* the fields that do not depend on data.json
InitOther(capacities) ==
  /\ now = 0
  /\ ticks = 0
  /\ MAX_CONCURRENT_OPERATIONS \in capacities
  /\ loadingCredentials = FALSE
  /\ proxyAssignment = [u \in UserNames |-> None]
  /\ nextRequestAt = [p \in Proxies |-> 0]
  /\ proxyAgent = None
  /\ session = None
  /\ concurrentOperations = 0
  /\ circuitState = CLOSED
  /\ circuitFailureCount = 0
  /\ circuitOpenTime = 0
  /\ nextSweepAt = AUTO_RECOVERY_CHECK_INTERVAL_MS
  /\ pc = [p \in Procs |-> "idle"]
  /\ acct = [p \in Procs |-> None]
  /\ loc = [p \in Procs |-> NewLoc]
  /\ ret = [p \in Procs |-> "none"]
  /\ batch = NewBatch
  /\ calls = 0
  /\ lastCallAt = [p \in Proxies |-> -1]
  /\ failStreak = 0
  /\ ev = NoEvent

InitWith(cookieSets, lockedSets, capacities) ==
  /\ InitOther(capacities)
  /\ \E withCookie \in cookieSets, locked \in lockedSets :
       /\ credentials = [a \in Accounts |->
                           [usable |-> a \notin locked,
                            isLocked |-> a \in locked,
                            cookie |-> a \in withCookie]]
       /\ accountHealth =
            [u \in UserNames |->
               IF u \in locked THEN [NewHealth EXCEPT !.status = LOCKED]
               ELSE NewHealth]
  /\ dataFile = credentials
  /\ credentialsLoaded = TRUE

(***************************************************************************)
(* Spec: concurrent executeWithAccount calls on accounts that start        *)
(* without stored cookies.  The upstream answers a login with success and  *)
(* an operation with a payload or with "Response status: 401".             *)
(***************************************************************************)
MaxCalls == 2
MaxTicks == 1

Init == InitWith({{}}, {{}}, {NumExec})

Next ==
  \/ \E d \in Execs : ExecuteStart(d, MaxCalls)
  \/ \E d \in Execs : Select(d)
  \/ \E d \in Execs : ExecAttempt(d)
  \/ \E d \in Execs : LoginCookiesDone(d, TRUE)
  \/ \E d \in Execs : LoginSleepDone(d)
  \/ \E d \in Execs : LoginResult(d, "ok")
  \/ \E d \in Execs : ExecAfterLogin(d)
  \/ \E d \in Execs, o \in {"payload", Msg401} : ExecResult(d, o)
  \/ \E d \in Execs : ExecSuspendSaved(d)
  \/ Tick({LOGIN_DELAY_MS}, MaxTicks)

Spec == Init /\ [][Next]_vars

(***************************************************************************)
(* SpecCooldown: concurrent executeWithAccount calls on accounts with      *)
(* stored cookies; the upstream answers an operation with a payload or     *)
(* with a rate-limit error, and time moves by the length of a cooldown.    *)
(***************************************************************************)
CooldownCalls == 2
CooldownTicks == 1

InitCooldown == InitWith({Accounts}, {{}}, {NumExec})

NextCooldown ==
  \/ \E d \in Execs : ExecuteStart(d, CooldownCalls)
  \/ \E d \in Execs : Select(d)
  \/ \E d \in Execs : ExecAttempt(d)
  \/ \E d \in Execs : LoginCookiesDone(d, TRUE)
  \/ \E d \in Execs : ExecAfterLogin(d)
  \/ \E d \in Execs, o \in {"payload", MsgRateLimit} : ExecResult(d, o)
  \/ Tick({COOLDOWN_DURATION_MS}, CooldownTicks)

SpecCooldown == InitCooldown /\ [][NextCooldown]_vars

(***************************************************************************)
(* SpecBreaker: executeWithAccount calls that drive the circuit breaker.   *)
(* Every account has stored cookies; at most one account is not stored as  *)
(* locked.  The upstream answers an operation with a payload or with a     *)
(* rate-limit error; time moves by the breaker's reset timeout.            *)
(***************************************************************************)
BreakerCalls == 17
BreakerTicks == 2

AtMostOneUsable ==
  {L \in SUBSET Accounts : Cardinality(L) >= NumAccounts - 1}

InitBreaker == InitWith({Accounts}, AtMostOneUsable, {NumExec})

NextBreaker ==
  \/ \E d \in Execs : ExecuteStart(d, BreakerCalls)
  \/ \E d \in Execs : Select(d)
  \/ \E d \in Execs : ExecAttempt(d)
  \/ \E d \in Execs : LoginCookiesDone(d, TRUE)
  \/ \E d \in Execs : ExecAfterLogin(d)
  \/ \E d \in Execs, o \in {"payload", MsgRateLimit} : ExecResult(d, o)
  \/ Tick({CIRCUIT_RESET_TIMEOUT_MS}, BreakerTicks)

SpecBreaker == InitBreaker /\ [][NextBreaker]_vars

(***************************************************************************)
(* SpecOpenEntry: the three dispatch entry points against the breaker.     *)
(* One account is usable and has stored cookies.  The upstream answers an  *)
(* operation of executeWithAccount with a rate-limit error and serves      *)
(* batches and searches; time moves by half the reset timeout.  The        *)
(* callers make OpenCalls - 1 calls of executeWithAccount and then one     *)
(* batch or one search, and the clock moves while no call is in flight     *)
(* (every behaviour of this specification is one of the program).          *)
(***************************************************************************)
OpenCalls == 16
OpenTicks == 4

OneUsable == {L \in SUBSET Accounts : Cardinality(L) = NumAccounts - 1}

InitOpenEntry == InitWith({Accounts}, OneUsable, {NumExec + 1})

NextOpenEntry ==
  \/ \E d \in Execs : ExecuteStart(d, OpenCalls)
  \/ \E p \in Execs \cup {BatchP, SearchP} : Select(p)
  \/ \E d \in Execs : ExecAttempt(d)
  \/ \E p \in Execs \cup {BatchP, SearchP} : LoginCookiesDone(p, TRUE)
  \/ \E d \in Execs : ExecAfterLogin(d)
  \/ \E d \in Execs : ExecResult(d, MsgRateLimit)
  \/ calls = OpenCalls - 1 /\ BatchStart(BatchLen, BatchLen, OpenCalls)
  \/ BatchAfterSelect
  \/ BatchAfterLogin
  \/ \E j \in 1..BatchLen : BatchClosureDone(j, "payload")
  \/ calls = OpenCalls - 1 /\ SearchStart(OpenCalls)
  \/ SearchAttempt
  \/ SearchAfterLogin
  \/ SearchResult("complete")
  \/ /\ \A p \in Procs : pc[p] = "idle"
     /\ Tick({CIRCUIT_RESET_TIMEOUT_MS \div 2}, OpenTicks)

SpecOpenEntry == InitOpenEntry /\ [][NextOpenEntry]_vars

(***************************************************************************)
(* SpecReturn: what the entry points hand back.  The gate has one slot     *)
(* less than there are callers; at most one account is not stored as       *)
(* locked; every account has stored cookies, which the driver may refuse.  *)
(* The upstream may answer a login and an operation in every way the       *)
(* model distinguishes; a batch is called with arrays of equal or of       *)
(* different lengths.  Calls of executeWithAccount overlap each other; a   *)
(* batch runs while no call of executeWithAccount is in flight, and its    *)
(* closures settle in slot order.  The waits for a rate-limited account    *)
(* are not followed to their end: they lead back into the loop.            *)
(***************************************************************************)
ReturnCalls == 2
ReturnTicks == 1

\* one message for every branch of the catch block of executeWithAccount
AllOutcomes ==
  {"payload", "empty", "throwNull", Msg401, MsgTweetsTimeout, MsgScreenName,
   MsgOpTimeout, MsgOther}
AllLogins == {"ok", "okNoCookies", "locked", "fail"}
ClosureOutcomes == {"payload", "throwNull", MsgOther}
BatchSizes == {SMALL_BATCH_MAX, BatchLen}

\* the closures of a chunk settle in the order of their slots
FirstRunning == CHOOSE j \in batch.running : \A k \in batch.running : j <= k

InitReturn == InitWith({Accounts}, AtMostOneUsable, {NumExec - 1})

NextReturn ==
  \/ /\ pc[BatchP] = "idle" /\ batch.running = {}
     /\ \E d \in Execs : ExecuteStart(d, ReturnCalls)
  \/ \E d \in Execs : GateAcquire(d)
  \/ \E d \in Execs : GateTimeout(d)
  \/ \E p \in Execs \cup {BatchP} : Select(p)
  \/ \E d \in Execs : ExecAttempt(d)
  \/ \E p \in Execs \cup {BatchP}, ok \in BOOLEAN : LoginCookiesDone(p, ok)
  \/ \E p \in Execs \cup {BatchP} : LoginSleepDone(p)
  \/ \E p \in Execs \cup {BatchP}, r \in AllLogins : LoginResult(p, r)
  \/ \E p \in Execs \cup {BatchP} : LoginLockSaved(p)
  \/ \E d \in Execs : ExecAfterLogin(d)
  \/ \E d \in Execs, o \in AllOutcomes : ExecResult(d, o)
  \/ \E d \in Execs : ExecSuspendSaved(d)
  \/ \E d \in Execs : ExecBanSaved(d)
  \/ \E d \in Execs : ExecScreenSleepDone(d)
  \/ /\ \A d \in Execs : pc[d] = "idle"
     /\ \E nOps, nFns \in BatchSizes : BatchStart(nOps, nFns, ReturnCalls)
  \/ BatchAfterSelect
  \/ BatchAfterLogin
  \/ /\ batch.running # {}
     /\ \E o \in ClosureOutcomes : BatchClosureDone(FirstRunning, o)
  \/ Tick({SCREEN_NAME_RETRY_MS, SEMAPHORE_TIMEOUT_MS}, ReturnTicks)

SpecReturn == InitReturn /\ [][NextReturn]_vars

(***************************************************************************)
(* SpecSink: concurrent executeWithAccount calls that share the one usable *)
(* account, which has stored cookies.  The upstream answers an operation   *)
(* with "Response status: 401", with the user-tweets timeout or with a     *)
(* rate-limit error.                                                       *)
(***************************************************************************)
SinkCalls == 2

InitSink == InitWith({Accounts}, OneUsable, {NumExec})

NextSink ==
  \/ \E d \in Execs : ExecuteStart(d, SinkCalls)
  \/ \E d \in Execs : Select(d)
  \/ \E d \in Execs : ExecAttempt(d)
  \/ \E d \in Execs : LoginCookiesDone(d, TRUE)
  \/ \E d \in Execs : ExecAfterLogin(d)
  \/ \E d \in Execs, o \in {Msg401, MsgTweetsTimeout, MsgRateLimit} :
       ExecResult(d, o)
  \/ \E d \in Execs : ExecSuspendSaved(d)
  \/ \E d \in Execs : ExecBanSaved(d)

SpecSink == InitSink /\ [][NextSink]_vars

(***************************************************************************)
(* SpecPromotion: executeWithAccount calls and the health sweep on the one *)
(* usable account, which has stored cookies.  The upstream answers an      *)
(* operation with a payload or with a rate-limit error; the clock moves    *)
(* past the sweep interval, which is also the length of a cooldown.        *)
(***************************************************************************)
PromotionCalls == 4
PromotionTicks == 1

InitPromotion == InitWith({Accounts}, OneUsable, {NumExec})

NextPromotion ==
  \/ \E d \in Execs : ExecuteStart(d, PromotionCalls)
  \/ \E d \in Execs : Select(d)
  \/ \E d \in Execs : ExecAttempt(d)
  \/ \E p \in Execs \cup {SweepP} : LoginCookiesDone(p, TRUE)
  \/ \E d \in Execs : ExecAfterLogin(d)
  \/ \E d \in Execs, o \in {"payload", MsgRateLimit} : ExecResult(d, o)
  \/ SweepStart
  \/ SweepAccount
  \/ SweepAfterLogin
  \/ Tick({AUTO_RECOVERY_CHECK_INTERVAL_MS + 1}, PromotionTicks)

SpecPromotion == InitPromotion /\ [][NextPromotion]_vars

(***************************************************************************)
(* SpecAttempts: one call of executeWithAccount at a time on accounts with *)
(* stored cookies.  The upstream answers an operation with "Response       *)
(* status: 401" or with an error no rule recognises; the clock moves by    *)
(* the wait for a rate-limited account (the window plus the slack).        *)
(***************************************************************************)
AttemptCalls == 1
AttemptTicks == 4

InitAttempts == InitWith({Accounts}, {{}}, {NumExec})

NextAttempts ==
  \/ \E d \in Execs : ExecuteStart(d, AttemptCalls)
  \/ \E d \in Execs : Select(d)
  \/ \E d \in Execs : ExecAttempt(d)
  \/ \E d \in Execs : ExecRateSleepDone(d)
  \/ \E d \in Execs : LoginCookiesDone(d, TRUE)
  \/ \E d \in Execs : ExecAfterLogin(d)
  \/ \E d \in Execs, o \in {Msg401, MsgOther} : ExecResult(d, o)
  \/ \E d \in Execs : ExecSuspendSaved(d)
  \/ /\ \E d \in Execs : pc[d] = "rateSleep"
     /\ Tick({RATE_LIMIT_WINDOW_MS + RATE_WAIT_SLACK_MS}, AttemptTicks)

SpecAttempts == InitAttempts /\ [][NextAttempts]_vars

(***************************************************************************)
(* SpecLive: calls of executeWithAccount on accounts with stored cookies   *)
(* against an upstream that answers with a payload or stops answering.     *)
(* The gate has room for every caller.  The event loop runs every          *)
(* continuation that is ready and timers fire: the steps of a call are     *)
(* weakly fair.  Starting a call and the upstream falling silent are the   *)
(* environment's choices and carry no fairness.  The clock moves only      *)
(* while a call waits for a rate-limited account.                          *)
(***************************************************************************)
LiveCalls == 2
LiveTicks == 2

InitLive == InitWith({Accounts}, {{}}, {NumExec})

StepLive(d) ==
  \/ Select(d)
  \/ ExecAttempt(d)
  \/ ExecRateSleepDone(d)
  \/ LoginCookiesDone(d, TRUE)
  \/ ExecAfterLogin(d)
  \/ \E o \in {"payload", MsgOpTimeout} : ExecResult(d, o)
  \/ ExecSuspendSaved(d)

TickLive ==
  /\ \E d \in Execs : pc[d] = "rateSleep" /\ now < loc[d].wake
  /\ Tick({RATE_LIMIT_WINDOW_MS + RATE_WAIT_SLACK_MS}, LiveTicks)

NextLive ==
  \/ \E d \in Execs : ExecuteStart(d, LiveCalls)
  \/ \E d \in Execs, timed \in BOOLEAN : UpstreamHangs(d, timed)
  \/ \E d \in Execs : StepLive(d)
  \/ TickLive

SpecLive ==
  /\ InitLive
  /\ [][NextLive]_vars
  /\ \A d \in Execs : WF_vars(StepLive(d))
  /\ WF_vars(TickLive)

(***************************************************************************)
(* SpecLoad: the service started on a data.json that holds an empty array. *)
(* Accounts are then added through the administration while calls of       *)
(* executeWithAccount arrive; each call loads the accounts when the array  *)
(* in memory is empty.  The upstream answers every request.                *)
(***************************************************************************)
LoadCalls == 3
LoadTicks == 1

InitLoad ==
  /\ InitOther({NumExec})
  /\ credentials = NoAccounts
  /\ accountHealth = [u \in UserNames |-> NewHealth]
  /\ dataFile = NoAccounts
  /\ credentialsLoaded = TRUE

NextLoad ==
  \/ \E a \in Accounts : AdminRead("add", a, LoadCalls)
  \/ AdminWrite
  \/ \E d \in Execs : ExecuteStart(d, LoadCalls)
  \/ \E d \in Execs : LoadStart(d)
  \/ \E d \in Execs : LoadDone(d)
  \/ \E d \in Execs : Select(d)
  \/ \E d \in Execs : ExecAttempt(d)
  \/ \E d \in Execs : LoginSleepDone(d)
  \/ \E d \in Execs : LoginResult(d, "ok")
  \/ \E d \in Execs : ExecAfterLogin(d)
  \/ \E d \in Execs : ExecResult(d, "payload")
  \/ Tick({LOGIN_DELAY_MS}, LoadTicks)

SpecLoad == InitLoad /\ [][NextLoad]_vars

(***************************************************************************)
(* SpecStore: calls of executeWithAccount on accounts with stored cookies  *)
(* whose requests are answered with a payload or with "Response status:    *)
(* 401" (the account is locked and the accounts are saved), while the      *)
(* administration deletes the locked accounts from data.json.              *)
(***************************************************************************)
StoreCalls == 3

InitStore == InitWith({Accounts}, {{}}, {NumExec})

NextStore ==
  \/ \E d \in Execs : ExecuteStart(d, StoreCalls)
  \/ \E d \in Execs : Select(d)
  \/ \E d \in Execs : ExecAttempt(d)
  \/ \E d \in Execs : LoginCookiesDone(d, TRUE)
  \/ \E d \in Execs : ExecAfterLogin(d)
  \/ \E d \in Execs, o \in {"payload", Msg401} : ExecResult(d, o)
  \/ \E d \in Execs : ExecSuspendSaved(d)
  \/ AdminRead("deleteLocked", None, StoreCalls)
  \/ AdminWrite

SpecStore == InitStore /\ [][NextStore]_vars

(***************************************************************************)
(* SpecClassify: failures with every message are reported to the health    *)
(* tracker, which classifies them.                                         *)
(***************************************************************************)
ClassifyCalls == 2
ClassifyTicks == 1

InitClassify == InitWith({{}}, {{}}, {NumExec})

NextClassify ==
  \/ \E u \in Accounts, m \in Messages : HealthReport(u, m, ClassifyCalls)
  \/ Tick({LOGIN_DELAY_MS}, ClassifyTicks)

SpecClassify == InitClassify /\ [][NextClassify]_vars

(***************************************************************************)
(* SpecGate: calls of executeWithAccount and a batch of more than 5        *)
(* operations run side by side on accounts with stored cookies; every      *)
(* request is answered with a payload.  The gate is as wide as the largest *)
(* number of closures one batch runs at a time, so that a batch alone      *)
(* stays within it.                                                        *)
(***************************************************************************)
GateCalls == 3

InitGate == InitWith({Accounts}, {{}}, {BatchLen})

NextGate ==
  \/ \E d \in Execs : ExecuteStart(d, GateCalls)
  \/ \E p \in Execs \cup {BatchP} : Select(p)
  \/ \E d \in Execs : ExecAttempt(d)
  \/ \E p \in Execs \cup {BatchP} : LoginCookiesDone(p, TRUE)
  \/ \E d \in Execs : ExecAfterLogin(d)
  \/ \E d \in Execs : ExecResult(d, "payload")
  \/ BatchStart(BatchLen, BatchLen, GateCalls)
  \/ BatchAfterSelect
  \/ BatchAfterLogin
  \/ \E j \in 1..BatchLen : BatchClosureDone(j, "payload")

SpecGate == InitGate /\ [][NextGate]_vars

(***************************************************************************)
(* SpecEmpty: one call of executeWithAccount on accounts with stored       *)
(* cookies; the executor returns a payload or an empty result.  The clock  *)
(* moves while the call waits for a rate-limited account.                  *)
(***************************************************************************)
EmptyCalls == 1

InitEmpty == InitWith({Accounts}, {{}}, {NumExec})

NextEmpty ==
  \/ \E d \in Execs : ExecuteStart(d, EmptyCalls)
  \/ \E d \in Execs : Select(d)
  \/ \E d \in Execs : ExecAttempt(d)
  \/ \E d \in Execs : ExecRateSleepDone(d)
  \/ \E d \in Execs : LoginCookiesDone(d, TRUE)
  \/ \E d \in Execs : ExecAfterLogin(d)
  \/ \E d \in Execs, o \in {"payload", "empty"} : ExecResult(d, o)
  \/ TickLive

SpecEmpty == InitEmpty /\ [][NextEmpty]_vars

(***************************************************************************)
(* SpecLock: calls of executeWithAccount share the one usable account,     *)
(* which has no stored cookies.  The upstream answers a login with success *)
(* or with the JSON error of code 326, and an operation with a payload or  *)
(* a rate-limit error.                                                     *)
(***************************************************************************)
LockCalls == 3
LockTicks == 2

InitLock == InitWith({{}}, OneUsable, {NumExec})

NextLock ==
  \/ \E d \in Execs : ExecuteStart(d, LockCalls)
  \/ \E d \in Execs : Select(d)
  \/ \E d \in Execs : ExecAttempt(d)
  \/ \E d \in Execs : LoginCookiesDone(d, TRUE)
  \/ \E d \in Execs : LoginSleepDone(d)
  \/ \E d \in Execs, r \in {"ok", "locked"} : LoginResult(d, r)
  \/ \E d \in Execs : LoginLockSaved(d)
  \/ \E d \in Execs : ExecAfterLogin(d)
  \/ \E d \in Execs, o \in {"payload", MsgRateLimit} : ExecResult(d, o)
  \/ Tick({LOGIN_DELAY_MS, RATE_LIMIT_WINDOW_MS}, LockTicks)

SpecLock == InitLock /\ [][NextLock]_vars

(***************************************************************************)
(* SpecCounter: calls of executeWithAccount and a profile search compete   *)
(* for a gate that has one slot less than there are callers.  At most one  *)
(* account is usable; every account has stored cookies.  An operation ends *)
(* with a payload or throws a value without a message.                     *)
(***************************************************************************)
CounterCalls == 4
CounterTicks == 1

InitCounter == InitWith({Accounts}, AtMostOneUsable, {NumExec})

NextCounter ==
  \/ \E d \in Execs : ExecuteStart(d, CounterCalls)
  \/ \E p \in Execs \cup {SearchP} : GateAcquire(p)
  \/ \E d \in Execs : GateTimeout(d)
  \/ \E p \in Execs \cup {SearchP} : Select(p)
  \/ \E d \in Execs : ExecAttempt(d)
  \/ \E p \in Execs \cup {SearchP} : LoginCookiesDone(p, TRUE)
  \/ \E d \in Execs : ExecAfterLogin(d)
  \/ \E d \in Execs, o \in {"payload", "throwNull"} : ExecResult(d, o)
  \/ SearchStart(CounterCalls)
  \/ SearchGateTimeout
  \/ SearchAttempt
  \/ SearchAfterLogin
  \/ \E o \in {"yield", "complete"} : SearchResult(o)
  \/ Tick({SEMAPHORE_TIMEOUT_MS}, CounterTicks)

SpecCounter == InitCounter /\ [][NextCounter]_vars

(***************************************************************************)
(* SpecPaths: the three dispatch paths (executeWithAccount, the            *)
(* single-account batch, searchProfiles), one after the other, on accounts *)
(* with stored cookies.  An upstream call answers, times out or fails with *)
(* a network error (a closure of the batch answers or times out).          *)
(***************************************************************************)
PathCalls == 2

PathOutcomes == {"payload", MsgOpTimeout, MsgFetchFailed}

\* no dispatch is running and no closure of a batch is left
AllIdle == (\A p \in Procs : pc[p] = "idle") /\ batch.running = {}

InitPaths == InitWith({Accounts}, {{}}, {NumExec})

NextPaths ==
  \/ AllIdle /\ \E d \in Execs : ExecuteStart(d, PathCalls)
  \/ \E p \in Execs \cup {BatchP, SearchP} : Select(p)
  \/ \E d \in Execs : ExecAttempt(d)
  \/ \E p \in Execs \cup {BatchP, SearchP} : LoginCookiesDone(p, TRUE)
  \/ \E d \in Execs : ExecAfterLogin(d)
  \/ \E d \in Execs, o \in PathOutcomes : ExecResult(d, o)
  \/ \E d \in Execs : ExecSuspendSaved(d)
  \/ AllIdle /\ BatchStart(BatchLen, BatchLen, PathCalls)
  \/ BatchAfterSelect
  \/ BatchAfterLogin
  \/ /\ batch.running # {}
     /\ \E o \in {"payload", MsgOpTimeout} :
          BatchClosureDone(FirstRunning, o)
  \/ AllIdle /\ SearchStart(PathCalls)
  \/ SearchAttempt
  \/ SearchAfterLogin
  \/ \E o \in {"yield", "complete", "timeout", MsgFetchFailed} : SearchResult(o)

SpecPaths == InitPaths /\ [][NextPaths]_vars

(***************************************************************************)
(* SpecLarge: calls of executeWithAccount whose closure is the one of      *)
(* getUserTweetsLarge, on accounts with stored cookies.  A page request    *)
(* may fail inside the closure; otherwise the closure returns its object   *)
(* or, for the other operations, throws a rate-limit error.                *)
(***************************************************************************)
LargeCalls == 2

InitLarge == InitWith({Accounts}, {{}}, {NumExec})

NextLarge ==
  \/ \E d \in Execs : ExecuteStart(d, LargeCalls)
  \/ \E d \in Execs : Select(d)
  \/ \E d \in Execs : ExecAttempt(d)
  \/ \E d \in Execs : LoginCookiesDone(d, TRUE)
  \/ \E d \in Execs : ExecAfterLogin(d)
  \/ \E d \in Execs : LargeFetchPageFails(d)
  \/ \E d \in Execs, o \in {"payload", MsgRateLimit} : ExecResult(d, o)

SpecLarge == InitLarge /\ [][NextLarge]_vars

(***************************************************************************)
(* SpecHealth: updateAccountHealth is called with failures classified      *)
(* AUTH, RATE_LIMIT and NOT_FOUND, as the dispatch paths call it; between  *)
(* the calls the clock moves and the health sweep runs.  Every account has *)
(* stored cookies.                                                         *)
(***************************************************************************)
HealthCalls == 6
HealthTicks == 1

HealthMessages == {MsgUnauthorized, MsgRateLimit, MsgNotFound}

InitHealth == InitWith({Accounts}, {{}}, {NumExec})

NextHealth ==
  \/ /\ pc[SweepP] = "idle"
     /\ \E u \in Accounts, m \in HealthMessages : HealthReport(u, m, HealthCalls)
  \/ SweepStart
  \/ SweepAccount
  \/ LoginCookiesDone(SweepP, TRUE)
  \/ SweepAfterLogin
  \/ /\ pc[SweepP] = "idle"
     /\ Tick({AUTO_RECOVERY_CHECK_INTERVAL_MS + 1}, HealthTicks)

SpecHealth == InitHealth /\ [][NextHealth]_vars

(***************************************************************************)
(* SpecNetwork: the three dispatch paths, one after the other, on accounts *)
(* with stored cookies.  An upstream call answers or fails with "fetch     *)
(* failed", which classifyError makes NETWORK and which is no timeout:     *)
(* every failure in this specification is of that kind.                    *)
(***************************************************************************)
NetworkCalls == 2

NetworkOutcomes == {"payload", MsgFetchFailed}

InitNetwork == InitWith({Accounts}, {{}}, {NumExec})

NextNetwork ==
  \/ AllIdle /\ \E d \in Execs : ExecuteStart(d, NetworkCalls)
  \/ \E p \in Execs \cup {BatchP, SearchP} : Select(p)
  \/ \E d \in Execs : ExecAttempt(d)
  \/ \E p \in Execs \cup {BatchP, SearchP} : LoginCookiesDone(p, TRUE)
  \/ \E d \in Execs : ExecAfterLogin(d)
  \/ \E d \in Execs, o \in NetworkOutcomes : ExecResult(d, o)
  \/ \E d \in Execs : ExecSuspendSaved(d)
  \/ AllIdle /\ BatchStart(BatchLen, BatchLen, NetworkCalls)
  \/ BatchAfterSelect
  \/ BatchAfterLogin
  \/ /\ batch.running # {}
     /\ \E o \in NetworkOutcomes : BatchClosureDone(FirstRunning, o)
  \/ AllIdle /\ SearchStart(NetworkCalls)
  \/ SearchAttempt
  \/ SearchAfterLogin
  \/ \E o \in {"complete", MsgFetchFailed} : SearchResult(o)

SpecNetwork == InitNetwork /\ [][NextNetwork]_vars

(***************************************************************************)
(* SpecFlood: updateAccountHealth is called again and again with the AUTH  *)
(* failure "Unauthorized", all at the same time of the clock.              *)
(***************************************************************************)
FloodCalls == 50

InitFlood == InitWith({Accounts}, {{}}, {NumExec})

NextFlood ==
  \E u \in Accounts : HealthReport(u, MsgUnauthorized, FloodCalls)

SpecFlood == InitFlood /\ [][NextFlood]_vars

(***************************************************************************)
(* SpecProxy: calls of executeWithAccount and batches of more than 5       *)
(* operations, one dispatch at a time, on accounts that have stored        *)
(* cookies.  Every operation returns a payload, so the accounts use up     *)
(* their request windows and a later batch is handed the rate-limited      *)
(* account; the clock moves by the spacing of a proxy.                     *)
(***************************************************************************)
ProxyCalls == 4
ProxyTicks == 1

InitProxy == InitWith({Accounts}, {{}}, {NumExec})

NextProxy ==
  \/ AllIdle /\ \E d \in Execs : ExecuteStart(d, ProxyCalls)
  \/ \E p \in Execs \cup {BatchP} : Select(p)
  \/ \E d \in Execs : ExecAttempt(d)
  \/ \E p \in Execs \cup {BatchP} : LoginCookiesDone(p, TRUE)
  \/ \E d \in Execs : ExecAfterLogin(d)
  \/ \E d \in Execs : ExecResult(d, "payload")
  \/ AllIdle /\ BatchStart(BatchLen, BatchLen, ProxyCalls)
  \/ BatchAfterSelect
  \/ BatchAfterLogin
  \/ batch.running # {} /\ BatchClosureDone(FirstRunning, "payload")
  \/ AllIdle /\ Tick({PROXY_SPACING_MS}, ProxyTicks)

SpecProxy == InitProxy /\ [][NextProxy]_vars

(***************************************************************************)
(* SpecChunks: batches of more operations than one chunk holds, on the one *)
(* usable account, which has stored cookies.  The closures of a chunk      *)
(* settle in the order of their slots, each with a payload or with an      *)
(* operation timeout.                                                      *)
(***************************************************************************)
ChunkCalls == 2

InitChunks == InitWith({Accounts}, OneUsable, {NumExec})

NextChunks ==
  \/ BatchStart(LongBatch, LongBatch, ChunkCalls)
  \/ Select(BatchP)
  \/ BatchAfterSelect
  \/ LoginCookiesDone(BatchP, TRUE)
  \/ BatchAfterLogin
  \/ /\ batch.running # {}
     /\ \E o \in {"payload", MsgOpTimeout} : BatchClosureDone(FirstRunning, o)

SpecChunks == InitChunks /\ [][NextChunks]_vars

(***************************************************************************)
(* Claims checked under Spec                                               *)
(***************************************************************************)
\* C1: selectAvailableAccount never returns, as the account to run on, an
\* account whose health status is LOCKED, SUSPENDED or DISABLED.
C1_NeverSelectsSinkStatus ==
  ev.sel # None => ev.status \notin {LOCKED, SUSPENDED, DISABLED}

\* C8: for every account, at every moment, the number of timestamps of its
\* requestHistory that lie within the rate-limit window is at most
\* REQUESTS_PER_HOUR.
C8_WindowWithinLimit ==
  \A a \in Accounts :
    Len(TrimWindow(accountHealth[a].requestHistory, now)) <= REQUESTS_PER_HOUR

\* C9: an upstream call that leaves through a proxy starts at least
\* PROXY_SPACING_MS after the previous call through that proxy.
C9_ProxyCallsSpaced ==
  ev.via # None => (ev.gap = -1 \/ ev.gap >= PROXY_SPACING_MS)

\* C10: an upstream call made for an account leaves through the proxy
\* assigned to that account, or through none.
C10_CallsUseOwnProxy ==
  ev.call # None => ev.via \in {None, proxyAssignment[ev.call]}

\* C12: once an account has isLocked = true and usable = false, no step sets
\* isLocked back to false or usable back to true (under Spec no account
\* starts locked, so every lock was set by the orchestrator).
C12_LockStays ==
  [][\A a \in Accounts :
       (credentials[a].isLocked /\ ~credentials[a].usable)
         => (credentials'[a].isLocked /\ ~credentials'[a].usable)]_vars

(***************************************************************************)
(* Claims checked under SpecCooldown                                       *)
(***************************************************************************)
\* C2: selectAvailableAccount never returns, as the account to run on, an
\* account whose status is COOLDOWN while now < cooldownUntil.
C2_NeverSelectsCoolingAccount == ev.sel # None => ~ev.cooling

\* selectAvailableAccount returned an account to run on while another
\* account was in COOLDOWN with its cooldownUntil still ahead
C2_Witness ==
  /\ ev.sel # None
  /\ \E a \in Accounts :
       /\ accountHealth[a].status = COOLDOWN
       /\ now < accountHealth[a].cooldownUntil

(***************************************************************************)
(* Claims checked under SpecBreaker.  A dispatch is a call of              *)
(* executeWithAccount that passed the breaker and the gate; it fails when  *)
(* it tells the breaker a failure and returns null.                        *)
(***************************************************************************)
\* C3: when a dispatch fails and it is at least the 15th failed dispatch in
\* a row with no success in between, the breaker is OPEN afterwards; and a
\* call of execute that meets the breaker OPEN less than 60 s after it
\* opened returns null without acquiring the gate, selecting an account or
\* changing any account health.
C3_TripsAndRejects ==
  [][/\ (failStreak' > failStreak /\ failStreak' >= CIRCUIT_FAILURE_THRESHOLD)
          => circuitState' = OPEN
     /\ \A d \in Execs :
          (/\ ev'.entry = "execute" /\ ev'.proc = d
           /\ circuitState = OPEN
           /\ now - circuitOpenTime < CIRCUIT_RESET_TIMEOUT_MS)
          => /\ ret'[d] = "null"
             /\ pc'[d] = "idle"
             /\ UNCHANGED <<concurrentOperations, acct, accountHealth,
                            credentials, breakerVars>>]_vars

\* after 15 failed dispatches in a row a call of execute was rejected
C3_Witness ==
  /\ failStreak >= CIRCUIT_FAILURE_THRESHOLD
  /\ circuitState = OPEN
  /\ ev.entry = "execute" /\ ~ev.admitted
  /\ ev.age < CIRCUIT_RESET_TIMEOUT_MS

\* C4: a call of execute that meets the breaker OPEN for at least 60 s is
\* admitted and leaves it HALF_OPEN; when a dispatch admitted as the trial
\* succeeds the breaker is CLOSED with failure count 0, and when it fails
\* the breaker is OPEN with its opening time set to the time of the failure.
C4_HalfOpenTrial ==
  [][/\ (/\ ev'.entry = "execute"
         /\ circuitState = OPEN
         /\ now - circuitOpenTime >= CIRCUIT_RESET_TIMEOUT_MS)
          => (ev'.admitted /\ circuitState' = HALF_OPEN)
     /\ \A d \in Execs :
          (loc[d].trial /\ pc[d] # "idle" /\ pc'[d] = "idle")
          => IF ret'[d] = "payload"
               THEN circuitState' = CLOSED /\ circuitFailureCount' = 0
               ELSE circuitState' = OPEN /\ circuitOpenTime' = now]_vars

\* C5: at most one dispatch admitted as a HALF_OPEN trial is in flight.
C5_SingleTrial ==
  Cardinality({d \in Execs : pc[d] # "idle" /\ loc[d].trial}) <= 1

(***************************************************************************)
(* Claims checked under SpecOpenEntry                                      *)
(***************************************************************************)
\* C6: a call of an entry point (execute, a batch of more than 5, the
\* streaming searchProfiles) that arrived while the breaker was OPEN for
\* less than 60 s has not gone on to tryLogin or to an upstream call while
\* the breaker still is OPEN for less than 60 s.
C6_OpenBreakerStopsEveryEntry ==
  \A p \in Execs \cup {BatchP, SearchP} :
    (loc[p].blocked /\ EntryBlocked)
      => pc[p] \in {"idle", "gateWait", "select", "selected", "rateSleep"}

C11_SinkStatusStays ==
  [][\A a \in Accounts :
       accountHealth[a].status \in {LOCKED, SUSPENDED}
         => accountHealth'[a].status = accountHealth[a].status]_vars

(***************************************************************************)
(* Claims checked under SpecPromotion                                      *)
(***************************************************************************)
\* C13: an account becomes HEALTHY only from PROBATION and only by a step
\* that completes three successful operation results in a row with no
\* failure between them; and an account in PROBATION whose third success in
\* a row is recorded becomes HEALTHY.
C13_PromotionAfterThreeSuccesses ==
  [][\A a \in Accounts :
       /\ (accountHealth[a].status # HEALTHY
            /\ accountHealth'[a].status = HEALTHY)
           => /\ accountHealth[a].status = PROBATION
              /\ accountHealth'[a].streak >= PROMOTION_SUCCESSES
       /\ (/\ accountHealth[a].status = PROBATION
           /\ accountHealth'[a].streak > accountHealth[a].streak
           /\ accountHealth'[a].streak >= PROMOTION_SUCCESSES)
           => accountHealth'[a].status = HEALTHY]_vars

(***************************************************************************)
(* Claims checked under SpecAttempts                                       *)
(***************************************************************************)
\* C14: one call of execute makes at most 10 (account, login, call) tries.
C14_AtMostTenTries == \A d \in Execs : loc[d].tries <= MAX_ATTEMPTS

(***************************************************************************)
(* Claims checked under SpecLive                                           *)
(***************************************************************************)
\* C15: every call of execute eventually returns, also when the upstream
\* never answers.
C15_EveryCallReturns ==
  \A d \in Execs : (pc[d] # "idle") ~> (pc[d] = "idle")

(***************************************************************************)
(* Claims checked under SpecLoad                                           *)
(***************************************************************************)
\* C16: whenever loadCredentials returns to its caller while data.json is
\* readable and holds at least one account, the array in memory holds
\* accounts of the file (it is not empty), also for a caller that arrived
\* while another load was in progress; and at most one caller is reading
\* the file at any time.
C16_LoadReturnsLoadedSet ==
  [][/\ \A p \in Execs :
          (/\ \/ pc[p] = "select" /\ pc'[p] = "selected"
              \/ pc[p] = "readFile" /\ pc'[p] = "loaded"
           /\ dataFile # Unreadable
           /\ DOMAIN dataFile # {})
            => /\ DOMAIN credentials' # {}
               /\ DOMAIN credentials' \subseteq DOMAIN dataFile
     /\ Cardinality({p \in Execs : pc'[p] = "readFile"}) <= 1]_vars

(***************************************************************************)
(* Claims checked under SpecStore                                          *)
(***************************************************************************)
\* the positions of a caller that awaits saveCredentials
SavePcs == {"suspendSave", "banSave", "loginLockSave"}

\* C17: at the moment a save completes, data.json holds the accounts as
\* they are in memory at that moment.
C17_SavedFileIsMemory ==
  [][\A p \in Procs :
       (pc[p] \in SavePcs /\ pc'[p] \notin SavePcs)
         => dataFile' = credentials']_vars

\* C18: no step of the orchestrator puts back into data.json an account
\* that the administration removed: the accounts of the file grow only by
\* a write of the administration.
C18_AdminDeletionStays ==
  [][\/ pc[AdminP] = "adminWrite" /\ pc'[AdminP] = "idle"
     \/ DOMAIN dataFile' \subseteq DOMAIN dataFile]_vars

(***************************************************************************)
(* Claims checked under SpecClassify                                       *)
(***************************************************************************)
\* the rules 2..8 as classifyError tests them, in order: needles and kind
CodeRules ==
  << <<{"response status: 401", "status code: 401"}, ACCOUNT_SUSPENDED>>,
     <<{"timeout", "timed out"}, TIMEOUT>>,
     <<{"network", "fetch failed", "connection", "socket"}, NETWORK>>,
     <<{"rate limit", "too many requests", "429"}, RATE_LIMIT>>,
     <<{"auth", "login", "credentials", "unauthorized", "401"}, AUTH>>,
     <<{"not found", "404"}, NOT_FOUND>>,
     <<{"account is temporarily locked", "account locked",
        "to unlock your account"}, ACCOUNT_LOCKED>> >>

\* the same rules with the needles "status 401" / "status code: 401" in
\* rule 2
StatedRules ==
  [CodeRules EXCEPT ![1] = <<{"status 401", "status code: 401"},
                             ACCOUNT_SUSPENDED>>]

Matches(m, rules) == {i \in 1..Len(rules) : Lower(m) \cap rules[i][1] # {}}

\* the kind of the first rule that matches m: rule 1 is the JSON code 326,
\* rule 9 is UNKNOWN
FirstRuleKind(m, rules) ==
  IF Json326(m) THEN ACCOUNT_LOCKED
  ELSE IF Matches(m, rules) = {} THEN UNKNOWN
  ELSE rules[CHOOSE i \in Matches(m, rules) :
               \A j \in Matches(m, rules) : i <= j][2]

\* C19 as stated: classifyError returns the kind of the first matching
\* rule, rule 2 being "status 401" or "status code: 401".
C19_FirstStatedRule ==
  ev.msg # "none" => ev.kind = FirstRuleKind(ev.msg, StatedRules)

\* C19, amended: classifyError returns the kind of the first matching
\* rule, rule 2 being "response status: 401" or "status code: 401"; the
\* kind depends on the lowercased message only.
C19_FirstMatchingRule ==
  ev.msg # "none" => ev.kind = FirstRuleKind(ev.msg, CodeRules)

\* a message that matches rule 2 and rule 6 was classified by rule 2
C19_Witness ==
  ev.msg = MsgUpper401 /\ ev.kind = ACCOUNT_SUSPENDED

(***************************************************************************)
(* Claims checked under SpecGate                                           *)
(***************************************************************************)
\* the closures that were started and have not finished: the executor of
\* an executeWithAccount call and the running closures of the batch
InFlight ==
  Cardinality({d \in Execs : pc[d] = "executor"})
    + Cardinality(batch.running)

\* C20: the number of upstream operations in flight through the
\* dispatcher never exceeds the capacity of the gate.
C20_InFlightWithinGate == InFlight <= MAX_CONCURRENT_OPERATIONS

(***************************************************************************)
(* Further claims checked under SpecReturn                                 *)
(***************************************************************************)
\* C21: a batch that has returned hands back, in every slot whose closure
\* produced a payload, that payload (batch.results holds what the closures
\* that settled before the return produced, slot by slot).
C21_SlotsHoldPayloads ==
  (pc[BatchP] = "idle" /\ ret[BatchP] \in {"results", "nulls"})
    => \A j \in 1..batch.n :
         batch.results[j] = "payload" => ret[BatchP] = "results"

(***************************************************************************)
(* Claims checked under SpecEmpty                                          *)
(***************************************************************************)
\* the failures on record: consecutiveFailures over the accounts
RecordedFailures ==
  LET RECURSIVE Sum(_)
      Sum(S) == IF S = {} THEN 0
                ELSE LET a == CHOOSE x \in S : TRUE
                     IN accountHealth[a].consecutiveFailures + Sum(S \ {a})
  IN Sum(Accounts)

\* C22: when the executor returns an empty result, the step records a
\* failure for the account, returns no payload and goes to the next
\* attempt, or returns null when it was the 10th; a call whose attempts
\* were all empty returns null after it ran the executor 10 times.
C22_EmptyPayloadRetries ==
  [][\A d \in Execs :
       /\ (pc[d] = "executor" /\ pc'[d] # "executor" /\ ret'[d] # "payload")
            => /\ accountHealth'[acct[d]].consecutiveFailures
                    = accountHealth[acct[d]].consecutiveFailures + 1
               /\ accountHealth'[acct[d]].consecutiveSuccesses = 0
               /\ IF loc[d].attempt + 1 < MAX_ATTEMPTS
                    THEN /\ pc'[d] = "select"
                         /\ loc'[d].attempt = loc[d].attempt + 1
                    ELSE pc'[d] = "idle" /\ ret'[d] = "null"
       /\ (pc[d] = "executor" /\ pc'[d] = "idle" /\ ret'[d] = "null")
            => loc[d].tries = MAX_ATTEMPTS]_vars

\* a call has returned null after 10 empty results
C22_Witness ==
  \E d \in Execs :
    pc[d] = "idle" /\ ret[d] = "null" /\ RecordedFailures = MAX_ATTEMPTS

(***************************************************************************)
(* Further claims checked under SpecStore                                  *)
(***************************************************************************)
\* C23: when the executor of a call fails on account A with "Response
\* status: 401", A is locked and unusable in memory; when the save that
\* follows has completed A is SUSPENDED, data.json holds A locked and
\* unusable, A is among the accounts the call skips and the attempt number
\* is the one of the failed try; the call never goes on to a login on an
\* account it skips; and an executor that succeeds ends the call with the
\* payload.
C23_SuspendedOn401 ==
  [][\A d \in Execs :
       /\ (pc[d] = "executor" /\ pc'[d] = "suspendSave")
            => /\ credentials'[acct[d]].isLocked
               /\ ~credentials'[acct[d]].usable
               /\ loc'[d].attempt = loc[d].attempt
       /\ (pc[d] = "suspendSave" /\ pc'[d] # "suspendSave")
            => /\ accountHealth'[acct[d]].status = SUSPENDED
               /\ dataFile'[acct[d]].isLocked
               /\ ~dataFile'[acct[d]].usable
               /\ acct[d] \in loc'[d].suspendedAccountsInThisRequest
               /\ loc'[d].attempt = loc[d].attempt
               /\ pc'[d] = "select"
       /\ loc'[d].tries > loc[d].tries
            => acct'[d] \notin loc'[d].suspendedAccountsInThisRequest
       /\ (pc[d] = "executor" /\ pc'[d] \notin {"executor", "suspendSave"})
            => pc'[d] = "idle" /\ ret'[d] = "payload"]_vars

\* a call that got a 401 on one account runs its executor on another
C23_Witness ==
  \E d \in Execs :
    /\ pc[d] = "executor"
    /\ loc[d].suspendedAccountsInThisRequest # {}
    /\ acct[d] \notin loc[d].suspendedAccountsInThisRequest
    /\ loc[d].attempt = 0

(***************************************************************************)
(* Claims checked under SpecLock                                           *)
(***************************************************************************)
\* the positions of a login that was not refused
LoginPcs == {"loginCookies", "loginSleep", "loginCall", "loginLockSave"}

\* C24: when the save after a login failure with code 326 has completed,
\* the account is LOCKED and data.json holds it locked; and no login that
\* starts for the account afterwards gets past the refusal of locked
\* accounts.
C24_LockedOn326 ==
  [][\A p \in Execs :
       /\ (pc[p] = "loginLockSave" /\ pc'[p] # "loginLockSave")
            => /\ accountHealth'[acct[p]].status = LOCKED
               /\ dataFile'[acct[p]].isLocked
       /\ (pc[p] \notin LoginPcs /\ pc'[p] \in LoginPcs)
            => ~accountHealth[acct'[p]].code326]_vars

(***************************************************************************)
(* Claims checked under SpecCounter                                        *)
(***************************************************************************)
\* the callers among ps that have acquired the gate and not yet returned
Holders(ps) == {p \in ps : pc[p] \notin {"idle", "gateWait"}}

BreakerTold(success) ==
  LET st == updateCircuitBreaker(Breaker, success)
  IN  <<st.state, st.count, st.openTime>>

\* C26: the step in which a call of executeWithAccount that holds the gate
\* returns is one updateCircuitBreaker, of success exactly when the call
\* returns a payload; no other step of the call touches the breaker.
C26_BreakerToldOnce ==
  [][\A d \in Execs :
       /\ (pc[d] \notin {"idle", "gateWait"} /\ pc'[d] = "idle")
            => /\ ret'[d] \in {"payload", "null"}
               /\ breakerVars' = BreakerTold(ret'[d] = "payload")
               /\ failStreak' = IF ret'[d] = "payload" THEN 0 ELSE failStreak + 1
       /\ (pc[d] \notin {"idle", "gateWait"} /\ pc'[d] \notin {"idle", pc[d]})
            => /\ breakerVars' = breakerVars
               /\ failStreak' = failStreak]_vars

\* a call has returned a payload and then a call has returned null, and the
\* breaker has counted the one failure
C26_Witness ==
  /\ \E d, e \in Execs :
        /\ pc[d] = "idle" /\ ret[d] = "payload"
        /\ pc[e] = "idle" /\ ret[e] = "null"
  /\ failStreak = 1
  /\ circuitFailureCount = 1

(***************************************************************************)
(* Claims about the single-account batch, checked under SpecReturn        *)
(***************************************************************************)
\* C27: whenever a batch of more than 5 operations is in its login or runs
\* closures, what it runs on is one of the accounts.
C27_BatchRunsOnAccount ==
  pc[BatchP] \in LoginPcs \cup {"loginDone", "chunk"}
    => acct[BatchP] \in Accounts

\* C28: the step in which a batch of more than 5 operations returns is one
\* updateCircuitBreaker, of success exactly when at least half of its
\* slots (rounded up) hold a payload.
C28_BatchTellsBreaker ==
  [][(pc[BatchP] # "idle" /\ pc'[BatchP] = "idle")
       => /\ breakerVars' =
               BreakerTold(SuccessCount(batch'.results, batch'.n)
                             >= HalfUp(batch'.n))
          /\ failStreak' =
               IF SuccessCount(batch'.results, batch'.n) >= HalfUp(batch'.n)
                 THEN 0 ELSE failStreak + 1]_vars

(***************************************************************************)
(* Claims about the wait for a rate-limited account, checked under         *)
(* SpecReturn                                                              *)
(***************************************************************************)
\* the accounts that fail the filter of selectAvailableAccount only because
\* their rate-limit window is full
OnlyRateLimited(t) ==
  {a \in DOMAIN credentials :
     /\ ~canRequest(accountHealth[a], t)
     /\ credentials[a].usable
     /\ ~credentials[a].isLocked
     /\ accountHealth[a].status # DISABLED
     /\ accountHealth[a].status # LOCKED
     /\ ~(/\ accountHealth[a].status = COOLDOWN
          /\ accountHealth[a].cooldownUntil # 0
          /\ t < accountHealth[a].cooldownUntil)}

C30_NextTryOnOtherAccount ==
  [][\A d \in Execs :
       (/\ pc[d] \in {"select", "loaded"} /\ pc'[d] = "selected"
        /\ loc[d].tries > 0 /\ loc[d].sel = "run"
        /\ Available(now) \ {acct[d]} # {})
         => acct'[d] # acct[d]]_vars

(***************************************************************************)
(* Claims checked under SpecPaths                                          *)
(***************************************************************************)
\* this step records a failure of error type kind in the health of a
Recorded(a, kind) ==
  /\ accountHealth'[a].errorHistory # accountHealth[a].errorHistory
  /\ accountHealth'[a].errorHistory
       [Len(accountHealth'[a].errorHistory)].type = kind

\* C31: a step that records a TIMEOUT failure for an account leaves the
\* account SUSPENDED, and data.json holds it locked and not usable.
C31_TimeoutSuspends ==
  [][\A a \in Accounts :
       Recorded(a, TIMEOUT)
         => /\ accountHealth'[a].status = SUSPENDED
            /\ dataFile'[a].isLocked
            /\ ~dataFile'[a].usable]_vars

(***************************************************************************)
(* Claims checked under SpecLarge                                          *)
(***************************************************************************)
\* C32: a try in which an upstream call of the closure has failed or timed
\* out does not end as a success: not a payload returned, and no success
\* counted in the health of the account that ran it.
C32_FailedCallNotSuccess ==
  [][\A d \in Execs :
       (pc[d] = "executor" /\ pc'[d] # "executor" /\ loc[d].failed)
         => /\ ret'[d] # "payload"
            /\ accountHealth'[acct[d]].consecutiveSuccesses = 0
            /\ accountHealth'[acct[d]].consecutiveFailures
                 = accountHealth[acct[d]].consecutiveFailures + 1]_vars

(***************************************************************************)
(* Claims checked under SpecHealth                                         *)
(***************************************************************************)
\* this step puts account a on a cooldown of 2 minutes from now
CoolsDown(a) ==
  /\ accountHealth'[a].status = COOLDOWN
  /\ accountHealth'[a].cooldownUntil = now + COOLDOWN_DURATION_MS

\* C33: a step makes an account COOLDOWN only by recording a RATE_LIMIT
\* failure, or an AUTH failure that brings consecutiveFailures to 5 or
\* more; both set cooldownUntil to now plus 2 minutes; an AUTH failure with
\* fewer consecutive failures leaves the status as it is.
C33_CooldownOnlyByRateLimitOrAuth ==
  [][\A a \in Accounts :
       /\ (accountHealth'[a].status = COOLDOWN
              /\ accountHealth[a].status # COOLDOWN)
            => \/ Recorded(a, RATE_LIMIT)
               \/ /\ Recorded(a, AUTH)
                  /\ accountHealth'[a].consecutiveFailures
                       >= AUTH_COOLDOWN_FAILURES
       /\ Recorded(a, RATE_LIMIT) => CoolsDown(a)
       /\ (Recorded(a, AUTH)
              /\ accountHealth'[a].consecutiveFailures >= AUTH_COOLDOWN_FAILURES)
            => CoolsDown(a)
       /\ (Recorded(a, AUTH)
              /\ accountHealth'[a].consecutiveFailures < AUTH_COOLDOWN_FAILURES)
            => accountHealth'[a].status = accountHealth[a].status]_vars

\* an account is on cooldown by five AUTH failures in a row, and another
\* by a rate-limit failure
C33_Witness ==
  \E a, b \in Accounts :
    /\ accountHealth[a].status = COOLDOWN
    /\ accountHealth[a].authFailures = AUTH_COOLDOWN_FAILURES
    /\ accountHealth[a].consecutiveFailures = AUTH_COOLDOWN_FAILURES
    /\ accountHealth[b].status = COOLDOWN
    /\ accountHealth[b].authFailures = 0

(***************************************************************************)
(* Claims checked under SpecNetwork                                        *)
(***************************************************************************)
\* C34: where every failure is a NETWORK failure that is no timeout, a
\* step changes the status of an account only to PROBATION with 10 or more
\* consecutive failures (or promotes it from PROBATION), and the account
\* stays usable and not locked.
C34_NetworkKeepsStatus ==
  [][\A a \in Accounts :
       /\ accountHealth'[a].status # accountHealth[a].status
            => \/ /\ accountHealth'[a].status = PROBATION
                  /\ accountHealth'[a].consecutiveFailures
                       >= NETWORK_PROBATION_FAILURES
               \/ /\ accountHealth[a].status = PROBATION
                  /\ accountHealth'[a].status = HEALTHY
       /\ credentials'[a].usable
       /\ ~credentials'[a].isLocked]_vars

(***************************************************************************)
(* Further claims checked under SpecHealth                                 *)
(***************************************************************************)
\* C35: a step that records a NOT_FOUND failure for an account leaves its
\* consecutiveFailures at the value before minus one, but not below 0, and
\* leaves its status as it is.
C35_NotFoundDecrements ==
  [][\A a \in Accounts :
       Recorded(a, NOT_FOUND)
         => /\ accountHealth'[a].consecutiveFailures
                 = IF accountHealth[a].consecutiveFailures - 1 > 0
                     THEN accountHealth[a].consecutiveFailures - 1
                     ELSE 0
            /\ accountHealth'[a].status = accountHealth[a].status]_vars

(***************************************************************************)
(* Claims checked under SpecFlood                                          *)
(***************************************************************************)
\* C36: an account for which 50 AUTH failures have been recorded within 24
\* hours is DISABLED.
C36_DisabledAfterFiftyAuth ==
  \A a \in Accounts :
    (/\ accountHealth[a].authFailures >= AUTH_ERROR_THRESHOLD
     /\ now < AUTH_ERROR_WINDOW_MS)
      => accountHealth[a].status = DISABLED

(***************************************************************************)
(* Claims checked under SpecPromotion                                      *)
(***************************************************************************)
\* C37: no step moves an account from COOLDOWN to PROBATION before the
\* account's cooldownUntil has passed.
C37_NoPromotionBeforeCooldownEnds ==
  [][\A a \in Accounts :
       (/\ accountHealth[a].status = COOLDOWN
        /\ accountHealth'[a].status = PROBATION)
         => now' > accountHealth[a].cooldownUntil]_vars

(***************************************************************************)
(* Claims checked under SpecProxy                                          *)
(***************************************************************************)
\* C38: the first assignment of a username binds it to the proxy at index
\* k mod |proxies|, k being the number of usernames bound before it; a
\* bound username is assigned the proxy it is bound to, and no step changes
\* or removes a binding.
C38_ProxyBindingSticky ==
  [][\A u \in UserNames :
       /\ proxyAssignment[u] # None
            => /\ assignProxyToAccount(u) = proxyAssignment[u]
               /\ proxyAssignment'[u] = proxyAssignment[u]
       /\ (proxyAssignment[u] = None /\ proxyAssignment'[u] # None)
            => proxyAssignment'[u]
                 = (Cardinality({v \in UserNames : proxyAssignment[v] # None})
                      % NumProxies) + 1]_vars

\* more usernames are bound than there are proxies, so the round-robin has
\* wrapped around, and a bound username has been assigned again
C38_Witness ==
  /\ Cardinality({v \in UserNames : proxyAssignment[v] # None}) > NumProxies
  /\ calls > Cardinality(UserNames)

(***************************************************************************)
(* Claims checked under SpecCooldown                                       *)
(***************************************************************************)
\* C39: an upstream call of an operation that a dispatch starts for
\* account A is made with the cookies of A (the calls of tryLogin itself,
\* which install the cookies, are left aside).
C39_CallsUseOwnSession ==
  [][(/\ ev'.call \in Accounts
      /\ \A p \in Procs : ~(pc[p] = "loginSleep" /\ pc'[p] = "loginCall"))
       => ev'.session = ev'.call]_vars

(***************************************************************************)
(* Claims checked under SpecChunks                                         *)
(***************************************************************************)
\* C40: no upstream call of an operation starts for an account whose
\* status is LOCKED or SUSPENDED or whose isLocked flag is set.
C40_NoCallOnLockedAccount ==
  [][\A a \in Accounts :
       (/\ \/ accountHealth[a].status \in {LOCKED, SUSPENDED}
           \/ credentials[a].isLocked
        /\ \A p \in Procs : ~(pc[p] = "loginSleep" /\ pc'[p] = "loginCall"))
         => ev'.call # a]_vars

====
